---- MODULE Spec2Model ----
(***************************************************************************)
(* Read simulator seq_sim of Lab_Buddy: coordinate resolution against the  *)
(* FASTA index, region extraction, the coverage-driven sampling loop       *)
(* (single-end and paired-end), the error-injection pass and the quality   *)
(* synthesis.                                                              *)
(*                                                                         *)
(* Bytes are one-character strings.  Rates are integers in units of        *)
(* 1/RateDenom; a draw of rand.Float64() is an integer h in units of       *)
(* 1/(2*RateDenom), so that "r < rate" is h < 2*rate and "r < rate/2" is    *)
(* h < rate, both exact.  Multipliers are integers.                        *)
(***************************************************************************)
EXTENDS Integers, Sequences, FiniteSets, TLC

VARIABLES
    cfg,            \* flags of SeqSimRun handed to simulateRegion / simulateRegionPaired
    ref,            \* bases of the reference sequence held by the archive
    rec,            \* IndexRecord of that sequence
    region,         \* [start, end) handed to simulateRegion / simulateRegionPaired
    pc,             \* position in simulateRegion / simulateRegionPaired
    targetBases,
    basesSimulated,
    readLen,        \* readLen (single-end) or fragLen (paired) of the current iteration
    baseStart,      \* baseStart / fragStart
    baseEnd,        \* baseEnd / fragEnd
    rawSeq,         \* rawSeq (single-end) or fragSeq (paired)
    strand,
    mate,           \* 0 single-end; 1, 2: which mate injectSequencingErrors works on
    readSeqs,       \* paired: <<read1Seq, read2Seq>>
    inj,            \* locals of the running injectSequencingErrors call
    r1,             \* paired: r1Mut, r1Mask, r1Log once the first call returned
    lastRecs,       \* records written by the current iteration
    emitted,        \* number of records the current region has written so far
    err,            \* error returned by the region, "" when none
    multiSeq,       \* SeqSimRun: the -range requests, in the order given
    outcomes,       \* SeqSimRun: ID, error and record count of every request the
                    \* loop over multiSeq has handled, in that order
    bufOut,         \* SeqSimRun: the records written to bufOut so far
    writers,        \* SeqSimRun: for every paired region simulated with -split_reads,
                    \* in that order, the records written to its w1 and its w2
    disk            \* contents of the output file and of the R1 and R2 files

vars == <<cfg, ref, rec, region, pc, targetBases, basesSimulated, readLen,
          baseStart, baseEnd, rawSeq, strand, mate, readSeqs, inj, r1,
          lastRecs, emitted, err, multiSeq, outcomes, bufOut, writers, disk>>

----------------------------------------------------------------------------
(* Bounds of the model *)

RateDenom == 4          \* a rate of RateDenom is 1.0
MaxQualDraws == 2       \* outcomes of rand.Intn kept per quality draw (lowest ones and the highest)
MaxLog == 8             \* deletions are explored while mutationLog holds fewer entries

----------------------------------------------------------------------------
(* Helpers *)

min(a, b) == IF a < b THEN a ELSE b

max(a, b) == IF a > b THEN a ELSE b

CeilDiv(a, b) == (a + b - 1) \div b

\* Go's integer division a / b for b > 0: the quotient is truncated toward zero.
quo(a, b) == IF a >= 0 THEN a \div b ELSE -((-a) \div b)

Bases == <<"A", "C", "G", "T">>

NoInj == [seq |-> <<>>, i |-> 0, result |-> <<>>, errorMask |-> <<>>,
          mutationLog |-> <<>>, lastError |-> FALSE, prev |-> "NUL", homoLen |-> 1]

----------------------------------------------------------------------------
(* Coordinate resolver and region extractor *)

\* calcByteOffset counting whole lines instead of their terminators.
calcByteOffset_WholeLines(basePos, r) ==
    LET lineCount == quo(basePos, r.BasesPerLine)
        extraBytes == lineCount * r.BytesPerLine
    IN  r.Offset + basePos + extraBytes

calcByteOffset(basePos, r) ==
    LET lineCount == quo(basePos, r.BasesPerLine)
        extraBytes == lineCount * (r.BytesPerLine - r.BasesPerLine)
    IN  r.Offset + basePos + extraBytes

\* Line terminator of an archive whose lines carry gap bytes after the bases.
Terminator(gap) ==
    IF gap = 0 THEN <<>> ELSE IF gap = 1 THEN <<"\n">> ELSE <<"\r", "\n">>

RECURSIVE WrapLines(_, _, _)
WrapLines(s, width, gap) ==
    IF Len(s) <= width THEN s \o Terminator(gap)
    ELSE SubSeq(s, 1, width) \o Terminator(gap)
         \o WrapLines(SubSeq(s, width + 1, Len(s)), width, gap)

\* The archive file: a header line of r.Offset bytes, the wrapped sequence,
\* and a following record.
FileBytes(s, r) ==
    LET header == [k \in 1..r.Offset |->
                     IF k = 1 THEN ">" ELSE IF k = r.Offset THEN "\n" ELSE "x"]
    IN  header \o WrapLines(s, r.BasesPerLine, r.BytesPerLine - r.BasesPerLine)
        \o <<">", "y", "\n", "T", "T", "\n">>

\* extractSequence that filters out \n only.
extractSequence_KeepCR(file, byteStart, byteEnd, bufCap) ==
    LET len == byteEnd - byteStart
        n == max(0, min(byteEnd, Len(file)) - byteStart)
        bytes == SubSeq(file, byteStart + 1, byteStart + n)
    IN  IF bufCap < len
        THEN [err |-> "buffer too small for read", clean |-> <<>>]
        ELSE IF byteStart < 0
        THEN [err |-> "seek failed", clean |-> <<>>]
        ELSE [err |-> "", clean |-> SelectSeq(bytes, LAMBDA b : b # "\n")]

\* extractSequence on a medium that serves every read: err is set when the
\* buffer is too small or the seek is refused (a negative offset), else clean
\* holds the bytes of [byteStart, byteEnd) that are neither \n nor \r.
extractSequence(file, byteStart, byteEnd, bufCap) ==
    LET len == byteEnd - byteStart
        n == max(0, min(byteEnd, Len(file)) - byteStart)
        bytes == SubSeq(file, byteStart + 1, byteStart + n)
    IN  IF bufCap < len
        THEN [err |-> "buffer too small for read", clean |-> <<>>]
        ELSE IF byteStart < 0
        THEN [err |-> "seek failed", clean |-> <<>>]
        ELSE [err |-> "",
              clean |-> SelectSeq(bytes, LAMBDA b : b # "\n" /\ b # "\r")]

----------------------------------------------------------------------------
(* Reverse complement *)

\* complement without the case for G, which then takes the fallback.
complement_NoG(b) ==
    CASE b \in {"A", "a"} -> "T"
      [] b \in {"T", "t"} -> "A"
      [] b \in {"C", "c"} -> "G"
      [] b \in {"N", "n"} -> "N"
      [] OTHER -> "N"

complement(b) ==
    CASE b \in {"A", "a"} -> "T"
      [] b \in {"T", "t"} -> "A"
      [] b \in {"C", "c"} -> "G"
      [] b \in {"G", "g"} -> "C"
      [] b \in {"N", "n"} -> "N"
      [] OTHER -> "N"

reverseComplementBytes(seq) ==
    [k \in 1..Len(seq) |-> complement(seq[Len(seq) + 1 - k])]

\* utils.ReverseComplement: a sequence that starts with '>' is returned as it
\* is; otherwise the sequence is upper-cased and complemented from its end.
ToUpper(b) ==
    CASE b = "a" -> "A" [] b = "c" -> "C" [] b = "g" -> "G" [] b = "t" -> "T"
      [] b = "n" -> "N" [] b = "r" -> "R" [] OTHER -> b

ReverseComplement(seq) ==
    IF Len(seq) > 0 /\ seq[1] = ">" THEN seq
    ELSE [k \in 1..Len(seq) |->
            LET b == ToUpper(seq[Len(seq) + 1 - k])
            IN  CASE b = "A" -> "T" [] b = "T" -> "A" [] b = "C" -> "G"
                  [] b = "G" -> "C" [] OTHER -> "N"]

----------------------------------------------------------------------------
(* Length sampler *)

\* Largest absolute value of int(n*float64(stddev)): the Box-Muller deviate
\* n = sqrt(-2 ln u1) * cos(2 pi u2) of two float64 draws with u1 > 0 is
\* below 8.58 in absolute value.  With u1 = 0 the deviate is infinite and
\* int() gives a value that depends on the build, the lowest or the highest
\* int64, which the test on min and max rejects after mean is added.
maxDeviation(stddev) == (858 * (IF stddev < 0 THEN -stddev ELSE stddev)) \div 100

\* randReadLen that returns its first draw.
randReadLen_FirstDraw(mean, stddev, mn, mx) ==
    IF stddev = 0 THEN {mean}
    ELSE (mean - maxDeviation(stddev))..(mean + maxDeviation(stddev))

\* Values randReadLen can return: mean when stddev is 0, else the draws
\* int(n*stddev) + mean that pass the test length >= min && length <= max;
\* the others are redrawn.
randReadLen(mean, stddev, mn, mx) ==
    IF stddev = 0 THEN {mean}
    ELSE {length \in (mean - maxDeviation(stddev))..(mean + maxDeviation(stddev)) :
            length >= mn /\ length <= mx}

----------------------------------------------------------------------------
(* Quality synthesizer: a quality string is a sequence of byte values *)

\* Outcomes of rand.Intn(n) explored for a quality draw.
IntnQ(n) == {k \in 0..(n - 1) : k < MaxQualDraws - 1 \/ k = n - 1}

RECURSIVE SeqsOver(_)
\* All sequences q with q[k] \in choices[k].
SeqsOver(choices) ==
    IF choices = <<>> THEN {<<>>}
    ELSE {<<x>> \o t : x \in Head(choices), t \in SeqsOver(Tail(choices))}

\* ShortQualAt whose decay starts at position 20: no plateau.
ShortQualAt_NoPlateau(i, n, isError) ==
    IF isError THEN {33 + 10 + d : d \in IntnQ(6)}
    ELSE IF i < 20 THEN {33 + (30 + (10 * i) \div 20)}
    ELSE {33 + max(30, 40 - CeilDiv(10 * (i - 20), n - 20))}

\* Byte values position i (0-based) of a read of length n can get.
ShortQualAt(i, n, isError) ==
    IF isError THEN {33 + 10 + d : d \in IntnQ(6)}
    ELSE IF i < 20 THEN {33 + (30 + (10 * i) \div 20)}
    ELSE IF i < 50 THEN {33 + 40}
    ELSE {33 + max(30, 40 - CeilDiv(10 * (i - 50), n - 50))}

generateShortReadQual(seq, errorMask) ==
    SeqsOver([k \in 1..Len(seq) |-> ShortQualAt(k - 1, Len(seq), errorMask[k])])

\* LongQualAt with a baseline of 10 + rand.Intn(12).
LongQualAt_WideBaseline(isError) ==
    IF isError THEN {33 + 7 + d : d \in IntnQ(4)}
    ELSE {33 + max(5, (10 + b) - dip) : b \in IntnQ(12), dip \in {0} \cup IntnQ(6)}

LongQualAt(isError) ==
    IF isError THEN {33 + 7 + d : d \in IntnQ(4)}
    ELSE {33 + max(5, (10 + b) - dip) : b \in IntnQ(10), dip \in {0} \cup IntnQ(6)}

generateLongReadQual(seq, errorMask) ==
    SeqsOver([k \in 1..Len(seq) |-> LongQualAt(errorMask[k])])

\* The switch on strings.ToLower(qualityProfile); {} stands for the default
\* branch, which returns an error.
QualityStrings(profile, seq, errorMask) ==
    CASE profile = "short" -> generateShortReadQual(seq, errorMask)
      [] profile = "long" -> generateLongReadQual(seq, errorMask)
      [] OTHER -> {}

----------------------------------------------------------------------------
(* Error-injection engine: one loop iteration of injectSequencingErrors    *)
(* per step; j is the record of the call's locals, j.i the loop index.     *)

window == 7

\* randBase returning the first draw without comparing it to exclude.
randBase_FirstDraw(exclude) == {Bases[k] : k \in 1..4}

randBase(exclude) == {Bases[k] : k \in 1..4} \ {exclude}

\* Outcomes of one rand.Float64(), in units of 1/(2*RateDenom).
Draws == 0..(2 * RateDenom - 1)

curBase(j) == j.seq[j.i + 1]

\* homoLen after the homopolymer tracking of the iteration.
homoLenAt(j) == IF curBase(j) = j.prev THEN j.homoLen + 1 ELSE 1

gcHigh(j) ==
    LET start == max(0, j.i - window)
        end == min(Len(j.seq), j.i + window + 1)
        gcCount == Cardinality({k \in start..(end - 1) :
                                  j.seq[k + 1] \in {"G", "C", "g", "c"}})
    IN  10 * gcCount > 6 * (end - start)

localSubRate(j) ==
    cfg.errorRate * (IF gcHigh(j) THEN cfg.gcBoost ELSE 1)
                  * (IF j.lastError THEN cfg.clusterBias ELSE 1)

\* localIndelRate that takes the GC boost as well.
localIndelRate_GcBoost(j) ==
    cfg.indelRate * (IF homoLenAt(j) >= 3 THEN cfg.homoBoost ELSE 1)
                  * (IF gcHigh(j) THEN cfg.gcBoost ELSE 1)
                  * (IF j.lastError THEN cfg.clusterBias ELSE 1)

localIndelRate(j) ==
    cfg.indelRate * (IF homoLenAt(j) >= 3 THEN cfg.homoBoost ELSE 1)
                  * (IF j.lastError THEN cfg.clusterBias ELSE 1)

\* The three tests of an iteration on their draws h.
ambigHit(h) == cfg.ambigRate > 0 /\ h < 2 * cfg.ambigRate

subHit(j, h) == localSubRate(j) > 0 /\ h < 2 * localSubRate(j)

delHit(j, h) == localIndelRate(j) > 0 /\ h < localIndelRate(j)

insHit(j, h) == localIndelRate(j) > 0 /\ ~(h < localIndelRate(j))
                /\ h < 2 * localIndelRate(j)

\* The iteration can get past the ambiguous-base test / the substitution test.
pastAmbig == {h \in Draws : ~ambigHit(h)} # {}

pastSub(j) == pastAmbig /\ {h \in Draws : ~subHit(j, h)} # {}

LogEntry(kind, pos, orig, text) ==
    [kind |-> kind, pos |-> pos, orig |-> orig, text |-> text]

\* injectSequencingErrors entered on seq.
injectCall(seq) == [NoInj EXCEPT !.seq = seq]

injecting == pc = "inject" /\ inj.i < Len(inj.seq)

\* InjectAmbig that leaves the injected N unflagged.
InjectAmbig_NoFlag ==
    /\ injecting
    /\ {h \in Draws : ambigHit(h)} # {}
    /\ inj' = [inj EXCEPT
                 !.prev = curBase(inj), !.homoLen = homoLenAt(inj),
                 !.result = Append(@, "N"),
                 !.errorMask = Append(@, FALSE),
                 !.mutationLog = Append(@, LogEntry("ambig", inj.i, <<curBase(inj)>>, <<"N">>)),
                 !.lastError = TRUE,
                 !.i = @ + 1]
    /\ UNCHANGED <<bufOut, writers, disk, multiSeq, outcomes, cfg, ref, rec, region, pc, targetBases, basesSimulated, readLen,
                   baseStart, baseEnd, rawSeq, strand, mate, readSeqs, r1,
                   lastRecs, emitted, err>>

InjectAmbig ==
    /\ injecting
    /\ {h \in Draws : ambigHit(h)} # {}
    /\ inj' = [inj EXCEPT
                 !.prev = curBase(inj), !.homoLen = homoLenAt(inj),
                 !.result = Append(@, "N"),
                 !.errorMask = Append(@, TRUE),
                 !.mutationLog = Append(@, LogEntry("ambig", inj.i, <<curBase(inj)>>, <<"N">>)),
                 !.lastError = TRUE,
                 !.i = @ + 1]
    /\ UNCHANGED <<bufOut, writers, disk, multiSeq, outcomes, cfg, ref, rec, region, pc, targetBases, basesSimulated, readLen,
                   baseStart, baseEnd, rawSeq, strand, mate, readSeqs, r1,
                   lastRecs, emitted, err>>

\* InjectSub that leaves the substituted base unflagged.
InjectSub_Unflagged ==
    /\ injecting
    /\ pastAmbig
    /\ {h \in Draws : subHit(inj, h)} # {}
    /\ \E mut \in randBase(curBase(inj)) :
         inj' = [inj EXCEPT
                   !.prev = curBase(inj), !.homoLen = homoLenAt(inj),
                   !.result = Append(@, mut),
                   !.errorMask = Append(@, FALSE),
                   !.mutationLog = Append(@, LogEntry("sub", inj.i, <<curBase(inj)>>, <<mut>>)),
                   !.lastError = TRUE,
                   !.i = @ + 1]
    /\ UNCHANGED <<bufOut, writers, disk, multiSeq, outcomes, cfg, ref, rec, region, pc, targetBases, basesSimulated, readLen,
                   baseStart, baseEnd, rawSeq, strand, mate, readSeqs, r1,
                   lastRecs, emitted, err>>

InjectSub ==
    /\ injecting
    /\ pastAmbig
    /\ {h \in Draws : subHit(inj, h)} # {}
    /\ \E mut \in randBase(curBase(inj)) :
         inj' = [inj EXCEPT
                   !.prev = curBase(inj), !.homoLen = homoLenAt(inj),
                   !.result = Append(@, mut),
                   !.errorMask = Append(@, TRUE),
                   !.mutationLog = Append(@, LogEntry("sub", inj.i, <<curBase(inj)>>, <<mut>>)),
                   !.lastError = TRUE,
                   !.i = @ + 1]
    /\ UNCHANGED <<bufOut, writers, disk, multiSeq, outcomes, cfg, ref, rec, region, pc, targetBases, basesSimulated, readLen,
                   baseStart, baseEnd, rawSeq, strand, mate, readSeqs, r1,
                   lastRecs, emitted, err>>

\* InjectDel with "i += delLen": the loop increment then skips one base more.
InjectDel_SkipOneMore ==
    /\ injecting
    /\ pastSub(inj)
    /\ {h \in Draws : delHit(inj, h)} # {}
    /\ LET delLen == min(cfg.maxIndel, Len(inj.seq) - inj.i)
       IN  inj' = [inj EXCEPT
                     !.prev = curBase(inj), !.homoLen = homoLenAt(inj),
                     !.mutationLog = Append(@, LogEntry("del", inj.i,
                                        SubSeq(inj.seq, inj.i + 1, inj.i + delLen), <<>>)),
                     !.lastError = TRUE,
                     !.i = @ + delLen + 1]
    /\ UNCHANGED <<bufOut, writers, disk, multiSeq, outcomes, cfg, ref, rec, region, pc, targetBases, basesSimulated, readLen,
                   baseStart, baseEnd, rawSeq, strand, mate, readSeqs, r1,
                   lastRecs, emitted, err>>

\* InjectDel without "continue": the first deleted base reaches the result.
InjectDel_FallThrough ==
    /\ injecting
    /\ pastSub(inj)
    /\ {h \in Draws : delHit(inj, h)} # {}
    /\ LET delLen == min(cfg.maxIndel, Len(inj.seq) - inj.i)
       IN  inj' = [inj EXCEPT
                     !.prev = curBase(inj), !.homoLen = homoLenAt(inj),
                     !.result = Append(@, curBase(inj)),
                     !.errorMask = Append(@, FALSE),
                     !.mutationLog = Append(@, LogEntry("del", inj.i,
                                        SubSeq(inj.seq, inj.i + 1, inj.i + delLen), <<>>)),
                     !.lastError = FALSE,
                     !.i = @ + (delLen - 1) + 1]
    /\ UNCHANGED <<bufOut, writers, disk, multiSeq, outcomes, cfg, ref, rec, region, pc, targetBases, basesSimulated, readLen,
                   baseStart, baseEnd, rawSeq, strand, mate, readSeqs, r1,
                   lastRecs, emitted, err>>

\* InjectDel with the indel test moved before the substitution test.
InjectDel_BeforeSub ==
    /\ injecting
    /\ pastAmbig
    /\ {h \in Draws : delHit(inj, h)} # {}
    /\ LET delLen == min(cfg.maxIndel, Len(inj.seq) - inj.i)
       IN  inj' = [inj EXCEPT
                     !.prev = curBase(inj), !.homoLen = homoLenAt(inj),
                     !.mutationLog = Append(@, LogEntry("del", inj.i,
                                        SubSeq(inj.seq, inj.i + 1, inj.i + delLen), <<>>)),
                     !.lastError = TRUE,
                     !.i = @ + (delLen - 1) + 1]
    /\ UNCHANGED <<bufOut, writers, disk, multiSeq, outcomes, cfg, ref, rec, region, pc, targetBases, basesSimulated, readLen,
                   baseStart, baseEnd, rawSeq, strand, mate, readSeqs, r1,
                   lastRecs, emitted, err>>

\* The deletion branch; with a maximum indel length of 0 it removes nothing
\* and the loop increment brings i back to the same position.
InjectDel ==
    /\ injecting
    /\ pastSub(inj)
    /\ {h \in Draws : delHit(inj, h)} # {}
    /\ min(cfg.maxIndel, Len(inj.seq) - inj.i) >= 0
    /\ Len(inj.mutationLog) < MaxLog
    /\ LET delLen == min(cfg.maxIndel, Len(inj.seq) - inj.i)
       IN  inj' = [inj EXCEPT
                     !.prev = curBase(inj), !.homoLen = homoLenAt(inj),
                     !.mutationLog = Append(@, LogEntry("del", inj.i,
                                        SubSeq(inj.seq, inj.i + 1, inj.i + delLen), <<>>)),
                     !.lastError = TRUE,
                     !.i = @ + (delLen - 1) + 1]
    /\ UNCHANGED <<bufOut, writers, disk, multiSeq, outcomes, cfg, ref, rec, region, pc, targetBases, basesSimulated, readLen,
                   baseStart, baseEnd, rawSeq, strand, mate, readSeqs, r1,
                   lastRecs, emitted, err>>

\* InjectIns with "continue" after the log entry: the input base is dropped.
InjectIns_DropBase ==
    /\ injecting
    /\ pastSub(inj)
    /\ {h \in Draws : insHit(inj, h)} # {}
    /\ cfg.maxIndel >= 1
    /\ \E insLen \in 1..cfg.maxIndel :
         \E inserted \in [1..insLen -> randBase("NUL")] :
           inj' = [inj EXCEPT
                     !.prev = curBase(inj), !.homoLen = homoLenAt(inj),
                     !.result = @ \o inserted,
                     !.errorMask = @ \o [k \in 1..insLen |-> TRUE],
                     !.mutationLog = Append(@, LogEntry("ins", inj.i, <<>>, inserted)),
                     !.lastError = TRUE,
                     !.i = @ + 1]
    /\ UNCHANGED <<bufOut, writers, disk, multiSeq, outcomes, cfg, ref, rec, region, pc, targetBases, basesSimulated, readLen,
                   baseStart, baseEnd, rawSeq, strand, mate, readSeqs, r1,
                   lastRecs, emitted, err>>

\* InjectIns that flags one base per insertion, whatever its length.
InjectIns_OneFlag ==
    /\ injecting
    /\ pastSub(inj)
    /\ {h \in Draws : insHit(inj, h)} # {}
    /\ cfg.maxIndel >= 1
    /\ \E insLen \in 1..cfg.maxIndel :
         \E inserted \in [1..insLen -> randBase("NUL")] :
           inj' = [inj EXCEPT
                     !.prev = curBase(inj), !.homoLen = homoLenAt(inj),
                     !.result = (@ \o inserted) \o <<curBase(inj)>>,
                     !.errorMask = Append(@, TRUE) \o <<FALSE>>,
                     !.mutationLog = Append(@, LogEntry("ins", inj.i, <<>>, inserted)),
                     !.lastError = FALSE,
                     !.i = @ + 1]
    /\ UNCHANGED <<bufOut, writers, disk, multiSeq, outcomes, cfg, ref, rec, region, pc, targetBases, basesSimulated, readLen,
                   baseStart, baseEnd, rawSeq, strand, mate, readSeqs, r1,
                   lastRecs, emitted, err>>

\* The insertion branch falls through to the "normal base" code.
InjectIns ==
    /\ injecting
    /\ pastSub(inj)
    /\ {h \in Draws : insHit(inj, h)} # {}
    /\ cfg.maxIndel >= 1
    /\ \E insLen \in 1..cfg.maxIndel :
         \E inserted \in [1..insLen -> randBase("NUL")] :
           inj' = [inj EXCEPT
                     !.prev = curBase(inj), !.homoLen = homoLenAt(inj),
                     !.result = (@ \o inserted) \o <<curBase(inj)>>,
                     !.errorMask = (@ \o [k \in 1..insLen |-> TRUE]) \o <<FALSE>>,
                     !.mutationLog = Append(@, LogEntry("ins", inj.i, <<>>, inserted)),
                     !.lastError = FALSE,
                     !.i = @ + 1]
    /\ UNCHANGED <<bufOut, writers, disk, multiSeq, outcomes, cfg, ref, rec, region, pc, targetBases, basesSimulated, readLen,
                   baseStart, baseEnd, rawSeq, strand, mate, readSeqs, r1,
                   lastRecs, emitted, err>>

InjectNormal ==
    /\ injecting
    /\ pastSub(inj)
    /\ \/ localIndelRate(inj) <= 0
       \/ {h \in Draws : ~(h < 2 * localIndelRate(inj))} # {}
    /\ inj' = [inj EXCEPT
                 !.prev = curBase(inj), !.homoLen = homoLenAt(inj),
                 !.result = Append(@, curBase(inj)),
                 !.errorMask = Append(@, FALSE),
                 !.lastError = FALSE,
                 !.i = @ + 1]
    /\ UNCHANGED <<bufOut, writers, disk, multiSeq, outcomes, cfg, ref, rec, region, pc, targetBases, basesSimulated, readLen,
                   baseStart, baseEnd, rawSeq, strand, mate, readSeqs, r1,
                   lastRecs, emitted, err>>

\* A run-time panic inside the pass: seq[i:i+delLen] with a negative delLen
\* in the deletion branch, rand.Intn(maxIndelLen) with maxIndelLen <= 0 in
\* the insertion branch.  The program ends.
InjectPanic ==
    /\ injecting
    /\ pastSub(inj)
    /\ \/ /\ {h \in Draws : delHit(inj, h)} # {}
          /\ min(cfg.maxIndel, Len(inj.seq) - inj.i) < 0
       \/ /\ {h \in Draws : insHit(inj, h)} # {}
          /\ cfg.maxIndel <= 0
    /\ pc' = "panic"
    /\ UNCHANGED <<bufOut, writers, disk, multiSeq, outcomes, cfg, ref, rec, region, targetBases,
                   basesSimulated, readLen, baseStart, baseEnd, rawSeq, strand, mate,
                   readSeqs, inj, r1, lastRecs, emitted, err>>

----------------------------------------------------------------------------
(* Inputs: flags, archives and -range requests *)

MaxDepth == 2

\* read_len_* and frag_len_* flags.  Single-end: fixed length 3, lengths
\* 2..3, fixed length 3 above read_len_max, fixed length 2.  Paired: fragments
\* of 2..4 with reads of 1, fragments of 4 with reads of 2.
LengthModels ==
    { [paired |-> FALSE, readLenMean |-> 3, readLenStdDev |-> 0, readLenMin |-> 1,
       readLenMax |-> 3, fragLenMean |-> 4, fragLenStddev |-> 1],
      [paired |-> FALSE, readLenMean |-> 2, readLenStdDev |-> 1, readLenMin |-> 2,
       readLenMax |-> 3, fragLenMean |-> 4, fragLenStddev |-> 1],
      [paired |-> FALSE, readLenMean |-> 3, readLenStdDev |-> 0, readLenMin |-> 1,
       readLenMax |-> 1, fragLenMean |-> 4, fragLenStddev |-> 1],
      [paired |-> FALSE, readLenMean |-> 2, readLenStdDev |-> 0, readLenMin |-> 2,
       readLenMax |-> 2, fragLenMean |-> 4, fragLenStddev |-> 1],
      [paired |-> TRUE, readLenMean |-> 3, readLenStdDev |-> 0, readLenMin |-> 1,
       readLenMax |-> 2, fragLenMean |-> 3, fragLenStddev |-> 1],
      [paired |-> TRUE, readLenMean |-> 3, readLenStdDev |-> 0, readLenMin |-> 2,
       readLenMax |-> 2, fragLenMean |-> 4, fragLenStddev |-> 0] }

\* Error flags: none; none with max_indel_len 0; ambig_rate 1.0;
\* substitutions only; indels only; all three kinds.
ErrorModels ==
    { [errorRate |-> 0, indelRate |-> 0, ambigRate |-> 0,
       clusterBias |-> 2, gcBoost |-> 2, maxIndel |-> 2, homoBoost |-> 2],
      [errorRate |-> 0, indelRate |-> 0, ambigRate |-> 0,
       clusterBias |-> 2, gcBoost |-> 2, maxIndel |-> 0, homoBoost |-> 2],
      [errorRate |-> 1, indelRate |-> 1, ambigRate |-> RateDenom,
       clusterBias |-> 2, gcBoost |-> 2, maxIndel |-> 2, homoBoost |-> 2],
      [errorRate |-> 1, indelRate |-> 0, ambigRate |-> 0,
       clusterBias |-> 2, gcBoost |-> 2, maxIndel |-> 2, homoBoost |-> 2],
      [errorRate |-> 0, indelRate |-> 1, ambigRate |-> 0,
       clusterBias |-> 2, gcBoost |-> 1, maxIndel |-> 2, homoBoost |-> 2],
      [errorRate |-> 1, indelRate |-> 1, ambigRate |-> 1,
       clusterBias |-> 1, gcBoost |-> 2, maxIndel |-> 1, homoBoost |-> 1] }

CleanModel(em) == em.errorRate = 0 /\ em.indelRate = 0 /\ em.ambigRate = 0

\* Length of the longest sequence the flags hand to injectSequencingErrors.
LongestRead(f) ==
    IF f.paired THEN f.readLenMin
    ELSE IF f.readLenStdDev = 0 THEN f.readLenMean ELSE f.readLenMax

Flags ==
    { lm @@ em @@ [coverageDepth |-> d, qualityProfile |-> qp, read_len |-> 150,
                   splitReads |-> sr] :
        lm \in LengthModels, em \in ErrorModels, d \in 1..MaxDepth,
        qp \in {"short", "long"}, sr \in BOOLEAN }

\* Flags that SeqSimRun refuses: a rate below 0 or above 1.0, -read_len below
\* 10, -depth below 1.
RefusedFlags ==
    LET f == CHOOSE g \in Flags :
                 CleanModel(g) /\ ~g.paired /\ g.coverageDepth = 1
                 /\ g.qualityProfile = "short" /\ g.readLenMean = 2
                 /\ g.readLenStdDev = 0 /\ g.maxIndel = 2 /\ ~g.splitReads
    IN  { [f EXCEPT !.errorRate = -1],
          [f EXCEPT !.indelRate = RateDenom + 1],
          [f EXCEPT !.ambigRate = RateDenom + 1],
          [f EXCEPT !.ambigRate = -1],
          [f EXCEPT !.read_len = 9],
          [f EXCEPT !.coverageDepth = 0] }

Archives ==
    { [ref |-> <<"A", "C", "g", "G", "T", "N">>,
       rec |-> [SeqLen |-> 6, Offset |-> 3, BasesPerLine |-> 3, BytesPerLine |-> 4]],
      [ref |-> <<"G", "G", "G", "C", "a">>,
       rec |-> [SeqLen |-> 5, Offset |-> 2, BasesPerLine |-> 2, BytesPerLine |-> 3]],
      [ref |-> <<"T", "R", "c", "A", "A">>,
       rec |-> [SeqLen |-> 5, Offset |-> 4, BasesPerLine |-> 4, BytesPerLine |-> 6]] }

\* Keys of index_map: the sequence of the archive.
IndexIDs == {"chr"}

\* -range requests as MultiSeqFlag.Set stores them (-1: not given): the whole
\* sequence, three ranges inside it, a range that starts before it and one
\* that starts behind it.
Requests ==
    { [ID |-> "chr", Start |-> -1, Stop |-> -1],
      [ID |-> "chr", Start |-> 0, Stop |-> 2],
      [ID |-> "chr", Start |-> 1, Stop |-> 5],
      [ID |-> "chr", Start |-> 2, Stop |-> 3],
      [ID |-> "chr", Start |-> -3, Stop |-> 2],
      [ID |-> "chr", Start |-> 7, Stop |-> -1] }

\* A request for a sequence the index does not hold.
UnknownRequest == [ID |-> "chrUn", Start |-> -1, Stop |-> -1]

\* Requests given before and after the request of a scenario.
Leads == { <<>>, <<UnknownRequest>> }

Trails == { <<>>, <<[ID |-> "chr", Start |-> -1, Stop |-> -1]>>, <<UnknownRequest>> }

\* Length of the region a request selects in an archive (see regionLen).
RequestLen(req, r) ==
    (IF req.Stop = -1 \/ req.Stop > r.SeqLen THEN r.SeqLen ELSE req.Stop)
    - (IF req.Start = -1 THEN 0 ELSE req.Start)

\* Runs explored: error-free runs at every depth; at depth 1, the runs that
\* turn every base into N, the single-end runs with substitutions only, and
\* every error model on reads and regions short enough to enumerate every
\* mutation result and quality string.  Several requests are given to
\* error-free runs at depth 1; the request that starts before the sequence is
\* given to single-end runs with errors; -split_reads is given to error-free
\* paired runs at depth 1; the refused flags come with one request.
Scenarios ==
    { sc \in [flags : Flags, arc : Archives, req : Requests,
              lead : Leads, trail : Trails] :
        /\ \/ CleanModel(sc.flags) /\ sc.flags.qualityProfile = "short"
           \/ /\ sc.flags.coverageDepth = 1
              /\ \/ sc.flags.ambigRate = RateDenom
                 \/ /\ sc.flags.indelRate = 0
                    /\ ~sc.flags.paired
                    /\ sc.flags.qualityProfile = "short"
                 \/ /\ LongestRead(sc.flags) <= (IF sc.flags.paired THEN 1 ELSE 2)
                    /\ RequestLen(sc.req, sc.arc.rec) <= 2
                    /\ (sc.flags.paired \/ sc.flags.qualityProfile = "long")
                         => sc.flags.maxIndel = 1
        /\ (sc.lead # <<>> \/ sc.trail # <<>>) =>
                 (CleanModel(sc.flags) /\ sc.flags.coverageDepth = 1
                  /\ sc.flags.qualityProfile = "short" /\ sc.req.Start >= -1)
        /\ sc.req.Start < -1 => (~CleanModel(sc.flags) /\ ~sc.flags.paired)
        /\ sc.flags.splitReads =>
                 (sc.flags.paired /\ CleanModel(sc.flags) /\ sc.flags.coverageDepth = 1
                  /\ sc.flags.qualityProfile = "short" /\ sc.flags.maxIndel = 2) }
    \cup
    { [flags |-> f, arc |-> a, req |-> [ID |-> "chr", Start |-> -1, Stop |-> -1],
       lead |-> <<>>, trail |-> <<>>] :
        f \in RefusedFlags,
        a \in {b \in Archives : b.rec.SeqLen = 6} }

----------------------------------------------------------------------------
(* SeqSimRun: the region handed to simulateRegion / simulateRegionPaired *)

regionStart == IF region.Start = -1 THEN 0 ELSE region.Start

regionEnd ==
    IF region.Stop = -1 \/ region.Stop > rec.SeqLen THEN rec.SeqLen ELSE region.Stop

regionLen == regionEnd - regionStart

\* Capacity of the reusable buffer buf.
bufCap ==
    IF cfg.paired
    THEN (cfg.fragLenMean + 3 * cfg.fragLenStddev) + cfg.readLenMax
    ELSE cfg.readLenMax * 2

\* The record that iteration number iter of the sampling loop of the region
\* of request number req wrote with fmt.Fprintf: the read of a single-end
\* iteration (mate 0), or mate 1 or 2 of the pair of a paired iteration.  The
\* text of the record is in lastRecs when it is written.
Written(req, iter, m) == [req |-> req, iter |-> iter, mate |-> m]

\* A write of data at offset off of a file.  Files are sequences of records
\* and offsets count records: the records of a run with -split_reads
\* explored here have the same number of bytes (fragments and reads of fixed
\* lengths, no indels, coordinates of one digit).
WriteAt(file, off, data) ==
    (SubSeq(file, 1, off) \o data) \o SubSeq(file, off + Len(data) + 1, Len(file))

\* The output file (or stdout) and the R1 and R2 files before SeqSimRun
\* created them.
NoFiles == [out |-> <<>>, R1 |-> <<>>, R2 |-> <<>>]

\* The deferred calls of SeqSimRun, which run last registered first: for every
\* region from the last to the first, w2.Flush() and w1.Flush() on the
\* descriptors the region got from os.Create, each of them at offset 0.  A
\* writer of bufio holds up to 4096 bytes, more than a run explored here
\* writes, so that no byte reaches a file before these calls.
RECURSIVE flushDeferred(_, _)
flushDeferred(files, ws) ==
    IF ws = <<>> THEN files
    ELSE LET w == ws[Len(ws)]
             f2 == [files EXCEPT !.R2 = WriteAt(@, 0, w.w2)]
             f1 == [f2 EXCEPT !.R1 = WriteAt(@, 0, w.w1)]
         IN  flushDeferred(f1, SubSeq(ws, 1, Len(ws) - 1))

\* No region is being simulated.
NoRegion == [ID |-> "", Start |-> -1, Stop |-> -1]

Init ==
    /\ \E sc \in Scenarios :
         /\ cfg = sc.flags
         /\ ref = sc.arc.ref
         /\ rec = sc.arc.rec
         /\ multiSeq = (sc.lead \o <<sc.req>>) \o sc.trail
    /\ region = NoRegion
    /\ outcomes = <<>>
    /\ pc = "args"
    /\ targetBases = 0
    /\ basesSimulated = 0
    /\ readLen = 0
    /\ baseStart = 0
    /\ baseEnd = 0
    /\ rawSeq = <<>>
    /\ strand = "+"
    /\ mate = 0
    /\ readSeqs = <<>>
    /\ inj = NoInj
    /\ r1 = NoInj
    /\ lastRecs = <<>>
    /\ emitted = 0
    /\ err = ""
    /\ bufOut = <<>>
    /\ writers = <<>>
    /\ disk = NoFiles

----------------------------------------------------------------------------
(* Coverage-driven sampling loop *)

\* Entry of simulateRegion / simulateRegionPaired up to the loop.
SimTooShort ==
    /\ pc = "start"
    /\ regionLen < (IF cfg.paired THEN cfg.readLenMin * 2 ELSE cfg.readLenMin)
    /\ pc' = "failed"
    /\ err' = "region too short"
    /\ UNCHANGED <<bufOut, writers, disk, multiSeq, outcomes, cfg, ref, rec, region, targetBases, basesSimulated, readLen,
                   baseStart, baseEnd, rawSeq, strand, mate, readSeqs, inj, r1,
                   lastRecs, emitted>>

SimStart ==
    /\ pc = "start"
    /\ ~(regionLen < (IF cfg.paired THEN cfg.readLenMin * 2 ELSE cfg.readLenMin))
    /\ targetBases' = regionLen * cfg.coverageDepth
    /\ basesSimulated' = 0
    /\ pc' = "loop"
    /\ UNCHANGED <<bufOut, writers, disk, multiSeq, outcomes, cfg, ref, rec, region, readLen,
                   baseStart, baseEnd, rawSeq, strand, mate, readSeqs, inj, r1,
                   lastRecs, emitted, err>>

\* The loop condition fails and the function returns nil; its locals die.
SimLoopExit ==
    /\ pc = "loop"
    /\ ~(basesSimulated < targetBases)
    /\ pc' = "done"
    /\ readLen' = 0
    /\ baseStart' = 0
    /\ baseEnd' = 0
    /\ rawSeq' = <<>>
    /\ strand' = "+"
    /\ mate' = 0
    /\ readSeqs' = <<>>
    /\ lastRecs' = <<>>
    /\ UNCHANGED <<bufOut, writers, disk, multiSeq, outcomes, cfg, ref, rec, region, targetBases, basesSimulated, inj, r1,
                   emitted, err>>

\* Top of an iteration: the length draw.  The locals of the previous
\* iteration are dead.
SimDraw ==
    /\ pc = "loop"
    /\ basesSimulated < targetBases
    /\ readLen' \in (IF cfg.paired
                     THEN randReadLen(cfg.fragLenMean, cfg.fragLenStddev,
                                      cfg.readLenMin * 2, cfg.readLenMax * 2)
                     ELSE randReadLen(cfg.readLenMean, cfg.readLenStdDev,
                                      cfg.readLenMin, cfg.readLenMax))
    /\ pc' = "drawn"
    /\ baseStart' = 0
    /\ baseEnd' = 0
    /\ rawSeq' = <<>>
    /\ strand' = "+"
    /\ mate' = 0
    /\ readSeqs' = <<>>
    /\ inj' = NoInj
    /\ r1' = NoInj
    /\ lastRecs' = <<>>
    /\ UNCHANGED <<bufOut, writers, disk, multiSeq, outcomes, cfg, ref, rec, region, targetBases, basesSimulated, emitted, err>>

\* "continue": the region is shorter than the drawn length.
SimReject ==
    /\ pc = "drawn"
    /\ regionLen < readLen
    /\ pc' = "loop"
    /\ readLen' = 0
    /\ UNCHANGED <<bufOut, writers, disk, multiSeq, outcomes, cfg, ref, rec, region, targetBases, basesSimulated,
                   baseStart, baseEnd, rawSeq, strand, mate, readSeqs, inj, r1,
                   lastRecs, emitted, err>>

\* Result of extractSequence for the read starting offs bases into the region.
extractAt(offs) ==
    extractSequence(FileBytes(ref, rec),
                    calcByteOffset(offs + regionStart, rec),
                    calcByteOffset((offs + regionStart) + readLen, rec),
                    bufCap)

SimExtract ==
    /\ pc = "drawn"
    /\ ~(regionLen < readLen)
    /\ \E offs \in 0..(regionLen - readLen) :
         /\ extractAt(offs).err = ""
         /\ baseStart' = offs + regionStart
         /\ baseEnd' = (offs + regionStart) + readLen
         /\ rawSeq' = extractAt(offs).clean
    /\ pc' = "extracted"
    /\ UNCHANGED <<bufOut, writers, disk, multiSeq, outcomes, cfg, ref, rec, region, targetBases, basesSimulated, readLen,
                   strand, mate, readSeqs, inj, r1, lastRecs, emitted, err>>

SimExtractFail ==
    /\ pc = "drawn"
    /\ ~(regionLen < readLen)
    /\ \E offs \in 0..(regionLen - readLen) :
         /\ extractAt(offs).err # ""
         /\ baseStart' = offs + regionStart
         /\ baseEnd' = (offs + regionStart) + readLen
         /\ err' = extractAt(offs).err
    /\ pc' = "failed"
    /\ UNCHANGED <<bufOut, writers, disk, multiSeq, outcomes, cfg, ref, rec, region, targetBases, basesSimulated, readLen,
                   rawSeq, strand, mate, readSeqs, inj, r1, lastRecs, emitted>>

\* SimReadFail that reports the failure and goes on with the next draw.
SimReadFail_Continue ==
    /\ pc = "drawn"
    /\ ~(regionLen < readLen)
    /\ \E offs \in 0..(regionLen - readLen) :
         /\ extractAt(offs).err = ""
         /\ baseStart' = offs + regionStart
         /\ baseEnd' = (offs + regionStart) + readLen
    /\ err' = "read failed"
    /\ pc' = "loop"
    /\ UNCHANGED <<bufOut, writers, disk, multiSeq, outcomes, cfg, ref, rec, region, targetBases, basesSimulated, readLen,
                   rawSeq, strand, mate, readSeqs, inj, r1, lastRecs, emitted>>

\* The medium fails the read of extractSequence ("read failed").
SimReadFail ==
    /\ pc = "drawn"
    /\ ~(regionLen < readLen)
    /\ \E offs \in 0..(regionLen - readLen) :
         /\ extractAt(offs).err = ""
         /\ baseStart' = offs + regionStart
         /\ baseEnd' = (offs + regionStart) + readLen
    /\ err' = "read failed"
    /\ pc' = "failed"
    /\ UNCHANGED <<bufOut, writers, disk, multiSeq, outcomes, cfg, ref, rec, region, targetBases, basesSimulated, readLen,
                   rawSeq, strand, mate, readSeqs, inj, r1, lastRecs, emitted>>

\* SimStrandFlip that reverses the read without complementing it.
SimStrandFlip_ReverseOnly ==
    /\ pc = "extracted"
    /\ ~cfg.paired
    /\ \E flip \in BOOLEAN :
         /\ rawSeq' = IF flip THEN [k \in 1..Len(rawSeq) |-> rawSeq[Len(rawSeq) + 1 - k]]
                              ELSE rawSeq
         /\ strand' = IF flip THEN "-" ELSE "+"
    /\ inj' = injectCall(rawSeq')
    /\ mate' = 0
    /\ pc' = "inject"
    /\ UNCHANGED <<bufOut, writers, disk, multiSeq, outcomes, cfg, ref, rec, region, targetBases, basesSimulated, readLen,
                   baseStart, baseEnd, readSeqs, r1, lastRecs, emitted, err>>

\* Single-end: the strand flip and the call of injectSequencingErrors.
SimStrandFlip ==
    /\ pc = "extracted"
    /\ ~cfg.paired
    /\ \E flip \in BOOLEAN :
         /\ rawSeq' = IF flip THEN reverseComplementBytes(rawSeq) ELSE rawSeq
         /\ strand' = IF flip THEN "-" ELSE "+"
    /\ inj' = injectCall(rawSeq')
    /\ mate' = 0
    /\ pc' = "inject"
    /\ UNCHANGED <<bufOut, writers, disk, multiSeq, outcomes, cfg, ref, rec, region, targetBases, basesSimulated, readLen,
                   baseStart, baseEnd, readSeqs, r1, lastRecs, emitted, err>>

\* A FASTQ record as handed to the writer, with the results of the
\* injectSequencingErrors call it came from.
ReadRecord(id, j, qual) ==
    [id |-> id, seq |-> j.result, qual |-> qual, input |-> j.seq,
     errorMask |-> j.errorMask, mutationLog |-> j.mutationLog]

\* SimEmit that counts the length of the mutated read.
SimEmit_CountMutated ==
    /\ pc = "inject"
    /\ mate = 0
    /\ ~(inj.i < Len(inj.seq))
    /\ \E qual \in QualityStrings(cfg.qualityProfile, inj.result, inj.errorMask) :
         /\ lastRecs' = <<ReadRecord(<<baseStart, baseEnd, strand>>, inj, qual)>>
         /\ bufOut' = Append(bufOut, Written(Len(outcomes) + 1, emitted + 1, 0))
    /\ emitted' = emitted + 1
    /\ basesSimulated' = basesSimulated + Len(inj.result)
    /\ inj' = NoInj
    /\ pc' = "loop"
    /\ UNCHANGED <<writers, disk, multiSeq, outcomes, cfg, ref, rec, region, targetBases, readLen,
                   baseStart, baseEnd, rawSeq, strand, mate, readSeqs, r1, err>>

\* Single-end: injectSequencingErrors returned; quality, write, count.
SimEmit ==
    /\ pc = "inject"
    /\ mate = 0
    /\ ~(inj.i < Len(inj.seq))
    /\ \E qual \in QualityStrings(cfg.qualityProfile, inj.result, inj.errorMask) :
         /\ lastRecs' = <<ReadRecord(<<baseStart, baseEnd, strand>>, inj, qual)>>
         /\ bufOut' = Append(bufOut, Written(Len(outcomes) + 1, emitted + 1, 0))
    /\ emitted' = emitted + 1
    /\ basesSimulated' = basesSimulated + readLen
    /\ inj' = NoInj
    /\ pc' = "loop"
    /\ UNCHANGED <<writers, disk, multiSeq, outcomes, cfg, ref, rec, region, targetBases, readLen,
                   baseStart, baseEnd, rawSeq, strand, mate, readSeqs, r1, err>>

\* PairedDerive taking read2 from the bases that follow read1 instead of the
\* end of the fragment.
PairedDerive_SecondWindow ==
    /\ pc = "extracted"
    /\ cfg.paired
    /\ cfg.readLenMin <= Len(rawSeq)
    /\ readSeqs' = << SubSeq(rawSeq, 1, cfg.readLenMin),
                      reverseComplementBytes(
                          SubSeq(rawSeq, cfg.readLenMin + 1, 2 * cfg.readLenMin)) >>
    /\ inj' = injectCall(readSeqs'[1])
    /\ mate' = 1
    /\ pc' = "inject"
    /\ UNCHANGED <<bufOut, writers, disk, multiSeq, outcomes, cfg, ref, rec, region, targetBases, basesSimulated, readLen,
                   baseStart, baseEnd, rawSeq, strand, r1, lastRecs, emitted, err>>

\* Paired: the slices fragSeq[:readLenMin] and fragSeq[len(fragSeq)-readLenMin:]
\* and the first call of injectSequencingErrors.
PairedDerive ==
    /\ pc = "extracted"
    /\ cfg.paired
    /\ cfg.readLenMin <= Len(rawSeq)
    /\ readSeqs' = << SubSeq(rawSeq, 1, cfg.readLenMin),
                      reverseComplementBytes(
                          SubSeq(rawSeq, Len(rawSeq) - cfg.readLenMin + 1, Len(rawSeq))) >>
    /\ inj' = injectCall(readSeqs'[1])
    /\ mate' = 1
    /\ pc' = "inject"
    /\ UNCHANGED <<bufOut, writers, disk, multiSeq, outcomes, cfg, ref, rec, region, targetBases, basesSimulated, readLen,
                   baseStart, baseEnd, rawSeq, strand, r1, lastRecs, emitted, err>>

\* Paired: the first call returned, the second starts.
PairedSecond ==
    /\ pc = "inject"
    /\ mate = 1
    /\ ~(inj.i < Len(inj.seq))
    /\ r1' = inj
    /\ inj' = injectCall(readSeqs[2])
    /\ mate' = 2
    /\ UNCHANGED <<bufOut, writers, disk, multiSeq, outcomes, cfg, ref, rec, region, pc, targetBases, basesSimulated, readLen,
                   baseStart, baseEnd, rawSeq, strand, readSeqs, lastRecs, emitted, err>>

\* PairedEmit that writes both records to writer1.
PairedEmit_BothToFirst ==
    /\ pc = "inject"
    /\ mate = 2
    /\ ~(inj.i < Len(inj.seq))
    /\ \E qual1 \in QualityStrings(cfg.qualityProfile, r1.result, r1.errorMask) :
         \E qual2 \in QualityStrings(cfg.qualityProfile, inj.result, inj.errorMask) :
           LET rec1 == Written(Len(outcomes) + 1, emitted \div 2 + 1, 1)
               rec2 == Written(Len(outcomes) + 1, emitted \div 2 + 1, 2)
           IN  /\ lastRecs' = << ReadRecord(<<baseStart, baseEnd, "/1">>, r1, qual1),
                                 ReadRecord(<<baseStart, baseEnd, "/2">>, inj, qual2) >>
               /\ IF cfg.splitReads
                  THEN /\ writers' = [writers EXCEPT
                                        ![Len(writers)].w1 = Append(Append(@, rec1), rec2)]
                       /\ bufOut' = bufOut
                  ELSE /\ bufOut' = (bufOut \o <<rec1>>) \o <<rec2>>
                       /\ writers' = writers
    /\ emitted' = emitted + 2
    /\ basesSimulated' = basesSimulated + readLen
    /\ inj' = NoInj
    /\ r1' = NoInj
    /\ pc' = "loop"
    /\ UNCHANGED <<disk, multiSeq, outcomes, cfg, ref, rec, region, targetBases, readLen,
                   baseStart, baseEnd, rawSeq, strand, mate, readSeqs, err>>

\* Paired: both calls returned; qualities, the two writes, count.
PairedEmit ==
    /\ pc = "inject"
    /\ mate = 2
    /\ ~(inj.i < Len(inj.seq))
    /\ \E qual1 \in QualityStrings(cfg.qualityProfile, r1.result, r1.errorMask) :
         \E qual2 \in QualityStrings(cfg.qualityProfile, inj.result, inj.errorMask) :
           LET rec1 == Written(Len(outcomes) + 1, emitted \div 2 + 1, 1)
               rec2 == Written(Len(outcomes) + 1, emitted \div 2 + 1, 2)
           IN  /\ lastRecs' = << ReadRecord(<<baseStart, baseEnd, "/1">>, r1, qual1),
                                 ReadRecord(<<baseStart, baseEnd, "/2">>, inj, qual2) >>
               /\ IF cfg.splitReads
                  THEN /\ writers' = [writers EXCEPT
                                        ![Len(writers)].w1 = Append(@, rec1),
                                        ![Len(writers)].w2 = Append(@, rec2)]
                       /\ bufOut' = bufOut
                  ELSE /\ bufOut' = (bufOut \o <<rec1>>) \o <<rec2>>
                       /\ writers' = writers
    /\ emitted' = emitted + 2
    /\ basesSimulated' = basesSimulated + readLen
    /\ inj' = NoInj
    /\ r1' = NoInj
    /\ pc' = "loop"
    /\ UNCHANGED <<disk, multiSeq, outcomes, cfg, ref, rec, region, targetBases, readLen,
                   baseStart, baseEnd, rawSeq, strand, mate, readSeqs, err>>

----------------------------------------------------------------------------
(* SeqSimRun: the checks of the flags and the loop over the requests *)

\* The conditions under which SeqSimRun calls log.Fatal before the loop.
flagsRefused ==
    \/ cfg.errorRate < 0 \/ cfg.errorRate > RateDenom
    \/ cfg.indelRate < 0 \/ cfg.indelRate > RateDenom
    \/ cfg.ambigRate < 0 \/ cfg.ambigRate > RateDenom
    \/ cfg.read_len < 10
    \/ cfg.coverageDepth < 1

RunFatal ==
    /\ pc = "args"
    /\ flagsRefused
    /\ pc' = "fatal"
    /\ UNCHANGED <<bufOut, writers, disk, multiSeq, outcomes, cfg, ref, rec, region, targetBases, basesSimulated,
                   readLen, baseStart, baseEnd, rawSeq, strand, mate, readSeqs,
                   inj, r1, lastRecs, emitted, err>>

RunBegin ==
    /\ pc = "args"
    /\ ~flagsRefused
    /\ pc' = "next"
    /\ UNCHANGED <<bufOut, writers, disk, multiSeq, outcomes, cfg, ref, rec, region, targetBases, basesSimulated,
                   readLen, baseStart, baseEnd, rawSeq, strand, mate, readSeqs,
                   inj, r1, lastRecs, emitted, err>>

\* The request the loop over multiSeq is at.
nextRequest == multiSeq[Len(outcomes) + 1]

\* RunSkip with "break" in the place of "continue".
RunSkip_Break ==
    /\ pc = "next"
    /\ Len(outcomes) < Len(multiSeq)
    /\ nextRequest.ID \notin IndexIDs
    /\ outcomes' = Append(outcomes, [ID |-> nextRequest.ID, err |-> "not found",
                                     emitted |-> 0])
    /\ pc' = "end"
    /\ UNCHANGED <<bufOut, writers, disk, multiSeq, cfg, ref, rec, region, targetBases, basesSimulated,
                   readLen, baseStart, baseEnd, rawSeq, strand, mate, readSeqs,
                   inj, r1, lastRecs, emitted, err>>

\* The request names a sequence the index does not hold: warning, continue.
RunSkip ==
    /\ pc = "next"
    /\ Len(outcomes) < Len(multiSeq)
    /\ nextRequest.ID \notin IndexIDs
    /\ outcomes' = Append(outcomes, [ID |-> nextRequest.ID, err |-> "not found",
                                     emitted |-> 0])
    /\ UNCHANGED <<bufOut, writers, disk, multiSeq, cfg, ref, rec, region, pc, targetBases, basesSimulated,
                   readLen, baseStart, baseEnd, rawSeq, strand, mate, readSeqs,
                   inj, r1, lastRecs, emitted, err>>

\* The request is handed to simulateRegion / simulateRegionPaired: to the
\* former with bufOut, to the latter with bufOut as w1 and as w2, or, with
\* -split_reads, with two new writers on the R1 and R2 files, which os.Create
\* creates or truncates.
RunRegion ==
    /\ pc = "next"
    /\ Len(outcomes) < Len(multiSeq)
    /\ nextRequest.ID \in IndexIDs
    /\ region' = nextRequest
    /\ pc' = "start"
    /\ IF cfg.paired /\ cfg.splitReads
       THEN /\ writers' = Append(writers, [w1 |-> <<>>, w2 |-> <<>>])
            /\ disk' = [disk EXCEPT !.R1 = <<>>, !.R2 = <<>>]
       ELSE UNCHANGED <<writers, disk>>
    /\ UNCHANGED <<bufOut, multiSeq, outcomes, cfg, ref, rec, targetBases, basesSimulated,
                   readLen, baseStart, baseEnd, rawSeq, strand, mate, readSeqs,
                   inj, r1, lastRecs, emitted, err>>

\* simulateRegion / simulateRegionPaired returned; an error is logged and the
\* loop goes on.
RegionReturn ==
    /\ pc \in {"done", "failed"}
    /\ outcomes' = Append(outcomes, [ID |-> region.ID, err |-> err, emitted |-> emitted])
    /\ pc' = "next"
    /\ region' = NoRegion
    /\ targetBases' = 0
    /\ basesSimulated' = 0
    /\ readLen' = 0
    /\ baseStart' = 0
    /\ baseEnd' = 0
    /\ emitted' = 0
    /\ err' = ""
    /\ UNCHANGED <<bufOut, writers, disk, multiSeq, cfg, ref, rec, rawSeq, strand, mate, readSeqs,
                   inj, r1, lastRecs>>

\* The loop is over: "Completed simulation"; SeqSimRun returns and its
\* deferred calls run, bufOut.Flush() the last of them.
RunEnd ==
    /\ pc = "next"
    /\ ~(Len(outcomes) < Len(multiSeq))
    /\ pc' = "end"
    /\ disk' = [flushDeferred(disk, writers) EXCEPT
                  !.out = WriteAt(@, 0, bufOut)]
    /\ UNCHANGED <<bufOut, writers, multiSeq, outcomes, cfg, ref, rec, region, targetBases, basesSimulated,
                   readLen, baseStart, baseEnd, rawSeq, strand, mate, readSeqs,
                   inj, r1, lastRecs, emitted, err>>

Next ==
    \/ RunFatal
    \/ RunBegin
    \/ RunSkip
    \/ RunRegion
    \/ RegionReturn
    \/ RunEnd
    \/ SimReadFail
    \/ SimTooShort
    \/ SimStart
    \/ SimLoopExit
    \/ SimDraw
    \/ SimReject
    \/ SimExtract
    \/ SimExtractFail
    \/ SimStrandFlip
    \/ InjectAmbig
    \/ InjectSub
    \/ InjectDel
    \/ InjectIns
    \/ InjectNormal
    \/ SimEmit
    \/ PairedDerive
    \/ PairedSecond
    \/ PairedEmit

Spec == Init /\ [][Next]_vars

\* The generator is uniform: while a length that fits the region can be
\* drawn, it is drawn sooner or later.
SimDrawFit == SimDraw /\ readLen' <= regionLen

LiveSpec == Init /\ [][Next]_vars /\ WF_vars(Next) /\ SF_vars(SimDrawFit)

----------------------------------------------------------------------------
(* injectSequencingErrors on its own: calls on given inputs *)

\* Flags with the given rates, multipliers and maximum indel length.
EngineFlags(er, ir, ar, cb, gb, mi, hb) ==
    [paired |-> FALSE, readLenMean |-> 3, readLenStdDev |-> 0, readLenMin |-> 1,
     readLenMax |-> 3, fragLenMean |-> 4, fragLenStddev |-> 1,
     errorRate |-> er, indelRate |-> ir, ambigRate |-> ar,
     clusterBias |-> cb, gcBoost |-> gb, maxIndel |-> mi, homoBoost |-> hb,
     coverageDepth |-> 1, qualityProfile |-> "short", read_len |-> 150,
     splitReads |-> FALSE]

\* Calls explored.  Every position N, on two inputs of 17 bases whose
\* windows are cut at the left, full, and cut at the right; substitutions
\* only, indels only, on inputs of 5 bases with and without a homopolymer
\* and with a GC fraction of 0.6 and of 0.8; rates of 1.0 and of 0.5 on
\* inputs of 3 bases.
EngineCalls ==
    { [flags |-> EngineFlags(1, 1, RateDenom, 2, 3, 1, 5), seq |-> q] :
        q \in { <<"G", "G", "G", "C", "C", "C", "C", "G", "G",
                  "A", "T", "A", "T", "A", "T", "G", "G">>,
                <<"G", "G", "G", "C", "C", "C", "C", "G", "G",
                  "c", "T", "A", "T", "A", "T", "T", "T">> } }
    \cup
    { [flags |-> EngineFlags(1, 0, 0, 2, 3, 1, 5), seq |-> q] :
        q \in { <<"G", "C", "G", "A", "T">>, <<"G", "C", "g", "C", "T">> } }
    \cup
    { [flags |-> EngineFlags(0, 1, 0, 2, 3, 1, 5), seq |-> q] :
        q \in { <<"G", "G", "G", "G", "A">>, <<"A", "A", "A", "T", "A">> } }
    \cup
    { [flags |-> f, seq |-> <<"A", "C", "C">>] :
        f \in { EngineFlags(RateDenom, 1, 1, 2, 3, 1, 5),
                EngineFlags(0, RateDenom, 0, 2, 3, 1, 5),
                EngineFlags(1, 1, RateDenom \div 2, 2, 3, 1, 5),
                EngineFlags(1, 1, 1, 2, 3, 2, 5) } }

EngineInit ==
    /\ \E call \in EngineCalls :
         /\ cfg = call.flags
         /\ ref = call.seq
         /\ inj = injectCall(call.seq)
    /\ rec = [SeqLen |-> Len(ref), Offset |-> 2, BasesPerLine |-> Len(ref),
              BytesPerLine |-> Len(ref) + 1]
    /\ multiSeq = <<>>
    /\ outcomes = <<>>
    /\ region = NoRegion
    /\ pc = "inject"
    /\ targetBases = 0
    /\ basesSimulated = 0
    /\ readLen = 0
    /\ baseStart = 0
    /\ baseEnd = 0
    /\ rawSeq = <<>>
    /\ strand = "+"
    /\ mate = 0
    /\ readSeqs = <<>>
    /\ r1 = NoInj
    /\ lastRecs = <<>>
    /\ emitted = 0
    /\ err = ""
    /\ bufOut = <<>>
    /\ writers = <<>>
    /\ disk = NoFiles

EngineNext ==
    \/ InjectAmbig
    \/ InjectSub
    \/ InjectDel
    \/ InjectIns
    \/ InjectNormal

EngineSpec == EngineInit /\ [][EngineNext]_vars

\* Values of -max_indel_len, which SeqSimRun hands on as they are given.
MaxIndelLens == {-1, 0, 1, 2}

\* Calls with every rate above 0, for each of these maximum indel lengths.
IndelLenCalls ==
    { [flags |-> EngineFlags(1, 1, 1, 2, 3, mi, 5), seq |-> <<"A", "C", "C">>] :
        mi \in MaxIndelLens }

IndelLenInit ==
    /\ \E call \in IndelLenCalls :
         /\ cfg = call.flags
         /\ ref = call.seq
         /\ inj = injectCall(call.seq)
    /\ rec = [SeqLen |-> Len(ref), Offset |-> 2, BasesPerLine |-> Len(ref),
              BytesPerLine |-> Len(ref) + 1]
    /\ multiSeq = <<>>
    /\ outcomes = <<>>
    /\ region = NoRegion
    /\ pc = "inject"
    /\ targetBases = 0
    /\ basesSimulated = 0
    /\ readLen = 0
    /\ baseStart = 0
    /\ baseEnd = 0
    /\ rawSeq = <<>>
    /\ strand = "+"
    /\ mate = 0
    /\ readSeqs = <<>>
    /\ r1 = NoInj
    /\ lastRecs = <<>>
    /\ emitted = 0
    /\ err = ""
    /\ bufOut = <<>>
    /\ writers = <<>>
    /\ disk = NoFiles

IndelLenNext ==
    \/ InjectAmbig
    \/ InjectSub
    \/ InjectDel
    \/ InjectIns
    \/ InjectNormal
    \/ InjectPanic

IndelLenSpec == IndelLenInit /\ [][IndelLenNext]_vars

----------------------------------------------------------------------------
(* The quality synthesis on its own: reads of up to MaxQualLen bases *)

MaxQualLen == 64

\* Positions (0-based) of a read of n bases that injectSequencingErrors
\* turned into N: none, one of the ends of the ramp, of the plateau and of
\* the decay, or the first and the last together.
ErrorSets(n) ==
    {{}} \cup {{e} : e \in {0, 19, 20, 49, 50, n - 1} \cap 0..(n - 1)}
         \cup {{0, n - 1}}

\* simulateRegion when injectSequencingErrors has returned for a read that
\* spans a sequence of n bases A, with the positions of errs turned into N.
QualInit ==
    /\ \E n \in 1..MaxQualLen : \E errs \in ErrorSets(n) :
         /\ ref = [k \in 1..n |-> "A"]
         /\ inj = [seq |-> ref, i |-> n,
                   result |-> [k \in 1..n |-> IF (k - 1) \in errs THEN "N" ELSE "A"],
                   errorMask |-> [k \in 1..n |-> (k - 1) \in errs],
                   mutationLog |->
                       IF errs = {} THEN <<>>
                       ELSE IF errs = {0, n - 1} /\ n > 1
                       THEN <<LogEntry("ambig", 0, <<"A">>, <<"N">>),
                              LogEntry("ambig", n - 1, <<"A">>, <<"N">>)>>
                       ELSE <<LogEntry("ambig", CHOOSE e \in errs : TRUE, <<"A">>, <<"N">>)>>,
                   lastError |-> (n - 1) \in errs, prev |-> "A", homoLen |-> n]
    /\ cfg = [EngineFlags(0, 0, 1, 2, 3, 1, 5) EXCEPT
                 !.readLenMean = Len(ref), !.readLenMax = Len(ref)]
    /\ rec = [SeqLen |-> Len(ref), Offset |-> 2, BasesPerLine |-> Len(ref),
              BytesPerLine |-> Len(ref) + 1]
    /\ multiSeq = <<[ID |-> "chr", Start |-> -1, Stop |-> -1]>>
    /\ outcomes = <<>>
    /\ region = multiSeq[1]
    /\ pc = "inject"
    /\ targetBases = Len(ref)
    /\ basesSimulated = 0
    /\ readLen = Len(ref)
    /\ baseStart = 0
    /\ baseEnd = Len(ref)
    /\ rawSeq = ref
    /\ strand = "+"
    /\ mate = 0
    /\ readSeqs = <<>>
    /\ r1 = NoInj
    /\ lastRecs = <<>>
    /\ emitted = 0
    /\ err = ""
    /\ bufOut = <<>>
    /\ writers = <<>>
    /\ disk = NoFiles

QualNext == SimEmit

QualSpec == QualInit /\ [][QualNext]_vars

----------------------------------------------------------------------------
(* Properties *)

Last(q) == q[Len(q)]

AllN(q) == \A k \in 1..Len(q) : q[k] = "N"

\* An iteration of the running injectSequencingErrors call that logs an
\* event of the given kind.
LoggedStep(kind) ==
    /\ pc = "inject"
    /\ pc' = "inject"
    /\ mate' = mate
    /\ Len(inj'.mutationLog) = Len(inj.mutationLog) + 1
    /\ Last(inj'.mutationLog).kind = kind

\* C1 (termination half): once the sampling loop of a region that passed the
\* minimum-length check is entered, simulateRegion / simulateRegionPaired
\* eventually leaves it.
C1_LoopExits == (pc = "loop") ~> (pc \in {"done", "failed"})

\* C2: at the end of a single-end region with a fixed read length r that is
\* at most the region length L, exactly ceil(d*L / r) records were written,
\* unless the medium failed a seek or a read.
C2_FixedLengthReadCount ==
    ( /\ pc \in {"done", "failed"}
      /\ err \notin {"read failed", "seek failed"}
      /\ ~cfg.paired
      /\ cfg.readLenStdDev = 0
      /\ cfg.readLenMean <= regionLen
      /\ cfg.readLenMin <= regionLen )
    => emitted = CeilDiv(cfg.coverageDepth * regionLen, cfg.readLenMean)

\* C3: the mutated bases and the error mask have the same length after every
\* iteration of the pass, and every record written has a sequence, a mask and
\* a quality string of one length.
C3_LengthsAgree ==
    /\ Len(inj.result) = Len(inj.errorMask)
    /\ Len(r1.result) = Len(r1.errorMask)
    /\ \A k \in 1..Len(lastRecs) :
         /\ Len(lastRecs[k].seq) = Len(lastRecs[k].errorMask)
         /\ Len(lastRecs[k].qual) = Len(lastRecs[k].seq)

\* A pair was written under either profile whose first mate gained or lost
\* bases.
C3_Witness ==
    /\ pc = "loop"
    /\ Len(lastRecs) = 2
    /\ Len(lastRecs[1].seq) # Len(lastRecs[1].input)
    /\ Len(lastRecs[2].seq) > 0

AllAmbiguous(j) ==
    /\ Len(j.result) = j.i
    /\ AllN(j.result)
    /\ \A k \in 1..Len(j.errorMask) : j.errorMask[k]
    /\ \A k \in 1..Len(j.mutationLog) : j.mutationLog[k].kind = "ambig"

C6_AllAmbiguous ==
    cfg.ambigRate = RateDenom =>
        /\ AllAmbiguous(inj)
        /\ AllAmbiguous(r1)
        /\ \A k \in 1..Len(lastRecs) :
             /\ Len(lastRecs[k].seq) = Len(lastRecs[k].input)
             /\ AllN(lastRecs[k].seq)
             /\ \A i \in 1..Len(lastRecs[k].errorMask) : lastRecs[k].errorMask[i]
             /\ \A i \in 1..Len(lastRecs[k].mutationLog) :
                  lastRecs[k].mutationLog[i].kind = "ambig"

\* A record of three N was written while the other rates were not 0.
C6_Witness ==
    /\ pc = "loop"
    /\ cfg.ambigRate = RateDenom /\ cfg.errorRate > 0 /\ cfg.indelRate > 0
    /\ Len(lastRecs) = 1
    /\ Len(lastRecs[1].seq) = 3

\* C7: a deletion at input position i consumes min(maxIndel, len - i) input
\* bases, emits nothing, and logs the position and the deleted bases.
C7_Deletion ==
    [][LoggedStep("del") =>
         LET delLen == min(cfg.maxIndel, Len(inj.seq) - inj.i)
         IN  /\ delLen <= cfg.maxIndel
             /\ inj'.i = inj.i + delLen
             /\ inj'.result = inj.result
             /\ inj'.errorMask = inj.errorMask
             /\ inj'.mutationLog =
                  Append(inj.mutationLog,
                         LogEntry("del", inj.i,
                                  SubSeq(inj.seq, inj.i + 1, inj.i + delLen), <<>>))]_vars

\* A deletion at the last input base removed one base although maxIndel is 2.
C7_Witness ==
    /\ pc = "inject"
    /\ cfg.maxIndel = 2
    /\ inj.mutationLog # <<>>
    /\ Last(inj.mutationLog).kind = "del"
    /\ Len(Last(inj.mutationLog).orig) = 1
    /\ Last(inj.mutationLog).pos = Len(inj.seq) - 1

\* C8: in paired mode read1 is handed to injectSequencingErrors as the
\* reference bases [fragStart, fragStart+readLenMin), read2 as the reverse
\* complement of the reference bases [fragEnd-readLenMin, fragEnd).
PairedInputs ==
    << SubSeq(ref, baseStart + 1, baseStart + cfg.readLenMin),
       reverseComplementBytes(SubSeq(ref, baseEnd - cfg.readLenMin + 1, baseEnd)) >>

C9_DoubleReverseComplement ==
    pc = "extracted" =>
        /\ reverseComplementBytes(reverseComplementBytes(rawSeq)) = rawSeq
        /\ ReverseComplement(ReverseComplement(rawSeq)) = rawSeq

\* The upper-case base of A, C, G, T in either case; N for any other symbol.
Canonical(b) ==
    CASE b \in {"A", "a"} -> "A" [] b \in {"C", "c"} -> "C"
      [] b \in {"G", "g"} -> "G" [] b \in {"T", "t"} -> "T" [] OTHER -> "N"

\* C9 amended: reverse-complementing twice gives the sequence upper-cased,
\* with N for every symbol other than A, C, G, T; it is the identity exactly
\* on the sequences over upper-case A, C, G, T, N.
C9_DoubleReverseComplementCanonical ==
    pc = "extracted" =>
        LET twice == reverseComplementBytes(reverseComplementBytes(rawSeq))
        IN  /\ twice = [k \in 1..Len(rawSeq) |-> Canonical(rawSeq[k])]
            /\ ReverseComplement(ReverseComplement(rawSeq)) = twice
            /\ (twice = rawSeq) <=>
                 (\A k \in 1..Len(rawSeq) : rawSeq[k] \in {"A", "C", "G", "T", "N"})

\* A sequence with a lower-case base and one over upper-case bases only are
\* both extracted.
C9_Witness ==
    /\ pc = "extracted"
    /\ Len(rawSeq) >= 3
    /\ \E k \in 1..Len(rawSeq) : rawSeq[k] = "C"
    /\ \E k \in 1..Len(rawSeq) : rawSeq[k] = "g"

\* C10: calcByteOffset(p, rec) = Offset + p + floor(p / basesPerLine) *
\* (bytesPerLine - basesPerLine) for p in [0, SeqLen], and is strictly
\* increasing in p when basesPerLine <= bytesPerLine.
C10_ByteOffset ==
    /\ \A p \in 0..rec.SeqLen :
         calcByteOffset(p, rec) =
             rec.Offset + p + (p \div rec.BasesPerLine) * (rec.BytesPerLine - rec.BasesPerLine)
    /\ rec.BasesPerLine <= rec.BytesPerLine =>
         \A p \in 0..rec.SeqLen : \A q \in 0..rec.SeqLen :
             p < q => calcByteOffset(p, rec) < calcByteOffset(q, rec)

\* A read whose two ends lie on different lines was extracted.
C10_Witness ==
    /\ pc = "extracted"
    /\ baseStart \div rec.BasesPerLine < baseEnd \div rec.BasesPerLine
    /\ baseStart > 0
    /\ Len(rawSeq) = baseEnd - baseStart

\* C11: for every 0 <= s < e <= SeqLen, the bytes of [calcByteOffset(s),
\* calcByteOffset(e)) of the archive, line terminators stripped, are the
\* bases s .. e-1 of the reference; so is every sequence the sampling loop
\* extracts from a range inside the sequence.
C11_ExtractionExact ==
    /\ \A s \in 0..rec.SeqLen : \A e \in 0..rec.SeqLen :
         s < e =>
           LET byteStart == calcByteOffset(s, rec)
               byteEnd == calcByteOffset(e, rec)
           IN  extractSequence(FileBytes(ref, rec), byteStart, byteEnd,
                               byteEnd - byteStart)
                 = [err |-> "", clean |-> SubSeq(ref, s + 1, e)]
    /\ (pc = "extracted" /\ baseStart >= 0) =>
         rawSeq = SubSeq(ref, baseStart + 1, baseEnd)

\* A read was extracted that starts inside a line, runs over a whole line and
\* ends with the last base of a line, so that the range holds two terminators.
C11_Witness ==
    /\ pc = "extracted"
    /\ baseStart > 0
    /\ baseStart % rec.BasesPerLine # 0
    /\ baseEnd % rec.BasesPerLine = 0
    /\ baseStart \div rec.BasesPerLine + 1 < baseEnd \div rec.BasesPerLine
    /\ rawSeq = SubSeq(ref, baseStart + 1, baseEnd)

\* C12: a request whose ID the index does not hold, or whose region is
\* shorter than readLenMin (single-end) or 2*readLenMin (paired), writes no
\* record; the loop handles the requests in the order given and ends only
\* when every request was handled.
RegionLevelFailure(req) ==
    \/ req.ID \notin IndexIDs
    \/ RequestLen(req, rec) < (IF cfg.paired THEN cfg.readLenMin * 2 ELSE cfg.readLenMin)

C12_RegionFailureSkipsRegionOnly ==
    /\ Len(outcomes) <= Len(multiSeq)
    /\ \A k \in 1..Len(outcomes) :
         /\ outcomes[k].ID = multiSeq[k].ID
         /\ RegionLevelFailure(multiSeq[k]) =>
              (outcomes[k].emitted = 0 /\ outcomes[k].err # "")
    /\ (region # NoRegion /\ RegionLevelFailure(region)) =>
         (emitted = 0 /\ pc \in {"start", "failed"})
    /\ pc = "end" => Len(outcomes) = Len(multiSeq)

\* A run ended in which the first request named an unknown sequence and the
\* last request, given after a region that was too short, wrote records.
C12_Witness ==
    /\ pc = "end"
    /\ Len(outcomes) = 3
    /\ outcomes[1].err = "not found"
    /\ outcomes[2].err = "region too short"
    /\ outcomes[3].err = "" /\ outcomes[3].emitted > 0

\* C13: under flags with a rate outside [0, 1], a minimum read length below
\* 1, a maximum read length below the minimum or a maximum indel length
\* below 1, no sampling loop is entered and no record is written.
ConfigOutOfRange ==
    \/ cfg.errorRate < 0 \/ cfg.errorRate > RateDenom
    \/ cfg.indelRate < 0 \/ cfg.indelRate > RateDenom
    \/ cfg.ambigRate < 0 \/ cfg.ambigRate > RateDenom
    \/ cfg.readLenMin < 1
    \/ cfg.readLenMax < cfg.readLenMin
    \/ cfg.maxIndel < 1

C13_ConfigErrorsFatal ==
    ConfigOutOfRange =>
        /\ pc \notin {"loop", "drawn", "extracted", "inject", "done"}
        /\ emitted = 0
        /\ \A k \in 1..Len(outcomes) : outcomes[k].emitted = 0

\* The failures of the medium during extractSequence.
IOErrors == {"seek failed", "read failed"}

\* An extraction of the running iteration fails on the medium.
ExtractionIOFailure == pc = "drawn" /\ err' \in IOErrors

\* C14 as stated: after an I/O failure of one extraction the sampling loop
\* of the region goes on with further draws, and the run is not aborted.
C14_FailedDrawContinues ==
    [][ExtractionIOFailure => pc' = "loop"]_vars

\* C14 amended: an I/O failure of one extraction ends the region: the call
\* returns the failure without a further draw, the records written before
\* stay written, SeqSimRun logs the failure and goes on with the next
\* request; the run ends only when every request was handled.
C14_FailedDrawEndsRegionOnly ==
    /\ [][ExtractionIOFailure =>
             (pc' = "failed" /\ emitted' = emitted /\ outcomes' = outcomes)]_vars
    /\ [][pc = "failed" =>
             /\ pc' = "next"
             /\ outcomes' = Append(outcomes, [ID |-> region.ID, err |-> err,
                                              emitted |-> emitted])]_vars
    /\ [](pc = "end" => Len(outcomes) = Len(multiSeq))

\* A run ended whose first region wrote a record before a read failed, and
\* whose second region wrote records after that.
C14_Witness ==
    /\ pc = "end"
    /\ Len(outcomes) = 2
    /\ outcomes[1].err = "read failed" /\ outcomes[1].emitted > 0
    /\ outcomes[2].err = "" /\ outcomes[2].emitted > 0

\* C15: every read or fragment drawn lies inside its region, and the region
\* inside the sequence.
C15_ReadsInsideSequence ==
    pc \in {"extracted", "inject"} =>
        /\ 0 <= regionStart
        /\ regionStart <= baseStart
        /\ baseStart + readLen <= regionEnd
        /\ regionEnd <= rec.SeqLen

\* An iteration of the running injectSequencingErrors call.
InjectStep ==
    /\ pc = "inject" /\ pc' = "inject"
    /\ mate' = mate
    /\ inj' # inj

\* C16: after an iteration that logged a mutation (ambiguous base,
\* substitution, deletion or insertion) the clustering flag is set for the
\* next iteration, after an iteration without mutation it is clear, and it is
\* clear at the first position of every read.
C16_ClusterFlagFollowsMutation ==
    [][ /\ InjectStep =>
             (inj'.lastError <=> Len(inj'.mutationLog) > Len(inj.mutationLog))
        /\ (pc' = "inject" /\ inj'.i = 0) => ~inj'.lastError ]_vars

\* The events of log at input position p.
EventsAt(log, p) == SelectSeq(log, LAMBDA ev : ev.pos = p)

RECURSIVE Provenance(_, _, _, _)
\* Output bases and flags that the events of log account for on the input
\* positions p .. stop-1 of seq: N, the substituted base and the inserted
\* bases are flagged; a position without event and the position of an
\* insertion give their own base, unflagged; a deletion gives nothing for
\* the bases it names.
Provenance(seq, log, p, stop) ==
    IF p >= stop THEN [out |-> <<>>, mask |-> <<>>]
    ELSE LET evs == EventsAt(log, p)
             ev == evs[1]
             step == IF evs # <<>> /\ ev.kind = "del" THEN Len(ev.orig) ELSE 1
             rest == Provenance(seq, log, p + step, stop)
             here == IF evs = <<>>
                     THEN [out |-> <<seq[p + 1]>>, mask |-> <<FALSE>>]
                     ELSE CASE ev.kind = "ambig" -> [out |-> <<"N">>, mask |-> <<TRUE>>]
                            [] ev.kind = "sub" -> [out |-> ev.text, mask |-> <<TRUE>>]
                            [] ev.kind = "del" -> [out |-> <<>>, mask |-> <<>>]
                            [] ev.kind = "ins" ->
                                 [out |-> Append(ev.text, seq[p + 1]),
                                  mask |-> Append([k \in 1..Len(ev.text) |-> TRUE], FALSE)]
         IN  [out |-> here.out \o rest.out, mask |-> here.mask \o rest.mask]

MaskExact(seq, log, stop, result, errorMask) ==
    /\ \A p \in 0..(Len(seq) - 1) : Len(EventsAt(log, p)) <= 1
    /\ result = Provenance(seq, log, 0, stop).out
    /\ errorMask = Provenance(seq, log, 0, stop).mask

\* C18: at every point of the pass and in every record written, the flagged
\* output bases are exactly those emitted by an ambiguous-base injection, a
\* substitution or an insertion, and every unflagged output base is the
\* input base of the position it was produced from.
C18_MaskExact ==
    /\ MaskExact(inj.seq, inj.mutationLog, inj.i, inj.result, inj.errorMask)
    /\ MaskExact(r1.seq, r1.mutationLog, r1.i, r1.result, r1.errorMask)
    /\ \A k \in 1..Len(lastRecs) :
         MaskExact(lastRecs[k].input, lastRecs[k].mutationLog, Len(lastRecs[k].input),
                   lastRecs[k].seq, lastRecs[k].errorMask)

\* A record was written whose bases come from an insertion, an unmutated
\* position and a substitution.
C18_Witness ==
    /\ pc = "loop"
    /\ Len(lastRecs) = 1
    /\ \E a \in 1..Len(lastRecs[1].mutationLog) : lastRecs[1].mutationLog[a].kind = "ins"
    /\ \E a \in 1..Len(lastRecs[1].mutationLog) : lastRecs[1].mutationLog[a].kind = "sub"
    /\ lastRecs[1].errorMask = <<TRUE, FALSE, TRUE>>

\* C19: an insertion at input position i emits 1 .. maxIndel bases of
\* A, C, G, T, all flagged, logs them with the coordinate i, and emits the
\* input base of position i, unflagged, right after them.
C19_Insertion ==
    [][LoggedStep("ins") =>
         LET ev == Last(inj'.mutationLog)
             k == Len(ev.text)
         IN  /\ 1 <= k /\ k <= cfg.maxIndel
             /\ \A x \in 1..k : ev.text[x] \in {"A", "C", "G", "T"}
             /\ ev.pos = inj.i
             /\ inj'.result = (inj.result \o ev.text) \o <<inj.seq[inj.i + 1]>>
             /\ inj'.errorMask = (inj.errorMask \o [x \in 1..k |-> TRUE]) \o <<FALSE>>
             /\ inj'.i = inj.i + 1]_vars

\* Two bases were inserted before the second base of a read.
C19_Witness ==
    /\ pc = "inject"
    /\ inj.mutationLog # <<>>
    /\ Last(inj.mutationLog).kind = "ins"
    /\ Len(Last(inj.mutationLog).text) = 2
    /\ Last(inj.mutationLog).pos = 1
    /\ Len(inj.result) >= 4

\* C17: an iteration logs at most one event and has the effect of exactly
\* one outcome; the tests are made in the order ambiguous base,
\* substitution, indel: where the ambiguous draw is sure to succeed nothing
\* else happens, where the substitution draw is sure to succeed no indel
\* happens, where the indel draw is sure to succeed no position is left
\* unmutated, and an outcome whose rate is 0 never happens.
C17_ExclusiveOutcomes ==
    [][InjectStep =>
         LET grown == Len(inj'.mutationLog) - Len(inj.mutationLog)
             kind == IF grown = 1 THEN Last(inj'.mutationLog).kind ELSE "none"
             b == inj.seq[inj.i + 1]
             added == SubSeq(inj'.result, Len(inj.result) + 1, Len(inj'.result))
         IN  /\ grown \in {0, 1}
             /\ SubSeq(inj'.result, 1, Len(inj.result)) = inj.result
             /\ kind = "ambig" => (added = <<"N">> /\ inj'.i = inj.i + 1)
             /\ kind = "sub" => (Len(added) = 1 /\ added # <<b>> /\ inj'.i = inj.i + 1)
             /\ kind = "del" => (added = <<>> /\ inj'.i > inj.i)
             /\ kind = "ins" => (Len(added) >= 2 /\ Last(added) = b /\ inj'.i = inj.i + 1)
             /\ kind = "none" => (added = <<b>> /\ inj'.i = inj.i + 1)
             /\ cfg.ambigRate >= RateDenom => kind = "ambig"
             /\ localSubRate(inj) >= RateDenom => kind \in {"ambig", "sub"}
             /\ localIndelRate(inj) >= RateDenom => kind # "none"
             /\ cfg.ambigRate <= 0 => kind # "ambig"
             /\ localSubRate(inj) <= 0 => kind # "sub"
             /\ localIndelRate(inj) <= 0 => kind \notin {"del", "ins"}]_vars

\* With a substitution rate of 1.0 and an indel rate above 0, a call logged
\* an ambiguous base and a substitution.
C17_Witness ==
    /\ pc = "inject"
    /\ cfg.errorRate >= RateDenom /\ cfg.indelRate > 0
    /\ inj.i = Len(inj.seq)
    /\ \E a \in 1..Len(inj.mutationLog) : inj.mutationLog[a].kind = "ambig"
    /\ \E a \in 1..Len(inj.mutationLog) : inj.mutationLog[a].kind = "sub"

\* The G/C fraction of the input window [max(0, i-7), min(n, i+8)) is above 0.6.
GCAbove(seq, i) ==
    LET lo == IF i - 7 > 0 THEN i - 7 ELSE 0
        hi == IF i + 8 < Len(seq) THEN i + 8 ELSE Len(seq)
        gc == Cardinality({p \in lo..(hi - 1) : seq[p + 1] \in {"G", "C", "g", "c"}})
    IN  10 * gc > 6 * (hi - lo)

\* C20: at every position the local substitution rate is errorRate, times
\* gcBoost iff the G/C fraction of the window is above 0.6, times clusterBias
\* iff the clustering flag is set; the local indel rate is indelRate, times
\* the homopolymer multiplier iff the run length is at least 3, times
\* clusterBias iff the flag is set; the ambiguous rate is not boosted: below
\* 1.0 it leaves the other outcomes possible at every position.
C20_LocalRates ==
    injecting =>
        /\ localSubRate(inj) =
               cfg.errorRate * (IF GCAbove(inj.seq, inj.i) THEN cfg.gcBoost ELSE 1)
                             * (IF inj.lastError THEN cfg.clusterBias ELSE 1)
        /\ localIndelRate(inj) =
               cfg.indelRate * (IF homoLenAt(inj) >= 3 THEN cfg.homoBoost ELSE 1)
                             * (IF inj.lastError THEN cfg.clusterBias ELSE 1)
        /\ cfg.ambigRate > 0 => ENABLED InjectAmbig
        /\ cfg.ambigRate < RateDenom =>
               ENABLED (InjectSub \/ InjectDel \/ InjectIns \/ InjectNormal)

\* A position in a G/C-rich window, third of a homopolymer, after a mutated
\* position, with both base rates above 0.
C20_Witness ==
    /\ injecting
    /\ cfg.errorRate > 0 /\ cfg.indelRate > 0
    /\ inj.lastError
    /\ homoLenAt(inj) >= 3
    /\ GCAbove(inj.seq, inj.i)
    /\ Len(inj.seq) > 15

\* Number of consecutive identical bases of seq that end at position i (0-based).
RECURSIVE RunEndingAt(_, _)
RunEndingAt(seq, i) ==
    IF i > 0 /\ seq[i] = seq[i + 1] THEN 1 + RunEndingAt(seq, i - 1) ELSE 1

\* C21: at every input position the pass processes, the run length used for
\* the indel boost is the number of consecutive identical input bases that
\* end at the position, also at the first position processed after a
\* deletion.
C21_HomopolymerRunLength ==
    injecting => homoLenAt(inj) = RunEndingAt(inj.seq, inj.i)

\* The same, for the positions of a call that has logged no deletion so far.
C21_RunLengthWithoutDeletion ==
    (injecting /\ \A a \in 1..Len(inj.mutationLog) : inj.mutationLog[a].kind # "del")
        => homoLenAt(inj) = RunEndingAt(inj.seq, inj.i)

\* The score of a non-error base at position p (0-based) of a read of n bases.
ShortProfile(p, n) ==
    IF p < 20 THEN 30 + p \div 2
    ELSE IF p < 50 THEN 40
    ELSE max(30, (40 * (n - 50) - 10 * (p - 50)) \div (n - 50))

\* C22: in every record written under the short profile, a character is its
\* score + 33; the score of an error-flagged base lies in 10..15 at every
\* position; the score of a non-error base is floor(30 + p/2) for p < 20, 40
\* for 20 <= p < 50 and max(30, floor(40 - 10*(p-50)/(n-50))) from 50 on,
\* hence lies in 30..40, does not decrease up to position 49 and does not
\* increase from position 50 on.
C22_ShortProfile ==
    \A a \in 1..Len(lastRecs) :
      LET r == lastRecs[a]
          n == Len(r.seq)
          score(p) == r.qual[p + 1] - 33
          clean == {p \in 0..(n - 1) : ~r.errorMask[p + 1]}
      IN  cfg.qualityProfile = "short" =>
            /\ Len(r.qual) = n
            /\ \A p \in 0..(n - 1) :
                 IF r.errorMask[p + 1] THEN score(p) \in 10..15
                 ELSE score(p) = ShortProfile(p, n) /\ score(p) \in 30..40
            /\ \A p \in clean, q \in clean :
                 /\ (p < q /\ q <= 49) => score(p) <= score(q)
                 /\ (50 <= p /\ p < q) => score(p) >= score(q)

\* A read of more than 60 bases was written whose first base is flagged, with
\* scores 30 and 39 on the ramp, 40 on the plateau, 40 and 39 at the start of
\* the decay and 30 at its end.
C22_Witness ==
    /\ cfg.qualityProfile = "short"
    /\ Len(lastRecs) = 1
    /\ LET r == lastRecs[1]
           n == Len(r.seq)
       IN  /\ n > 60
           /\ r.errorMask[1] /\ r.qual[1] = 33 + 15
           /\ r.qual[2] = 33 + 30
           /\ r.qual[20] = 33 + 39
           /\ r.qual[21] = 33 + 40
           /\ r.qual[51] = 33 + 40
           /\ r.qual[52] = 33 + 39
           /\ ~r.errorMask[n] /\ r.qual[n] = 33 + 30

\* C23: in every record written under the long profile, a character is its
\* score + 33; the score of an error-flagged base lies in 7..10; the score of
\* a non-error base is a baseline in 10..20 lowered by an excursion of at
\* most 5, and lies in 5..20.
C23_LongProfile ==
    \A a \in 1..Len(lastRecs) :
      LET r == lastRecs[a]
          score(p) == r.qual[p] - 33
      IN  cfg.qualityProfile = "long" =>
            /\ Len(r.qual) = Len(r.seq)
            /\ \A p \in 1..Len(r.seq) :
                 IF r.errorMask[p] THEN score(p) \in 7..10
                 ELSE /\ score(p) \in 5..20
                      /\ \E b \in 10..20, dip \in 0..5 : score(p) = b - dip

\* A record of the long profile with an error-flagged base of score 10 and
\* non-error bases of score 5 and 19.
C23_Witness ==
    /\ cfg.qualityProfile = "long"
    /\ \E a \in 1..Len(lastRecs) :
         LET r == lastRecs[a]
         IN  /\ \E p \in 1..Len(r.seq) : r.errorMask[p] /\ r.qual[p] = 33 + 10
             /\ \E p \in 1..Len(r.seq) : ~r.errorMask[p] /\ r.qual[p] = 33 + 5
             /\ \E p \in 1..Len(r.seq) : ~r.errorMask[p] /\ r.qual[p] = 33 + 19

\* The arguments of the randReadLen call of the sampling loop.
SamplerArgs ==
    IF cfg.paired
    THEN [mean |-> cfg.fragLenMean, stdDev |-> cfg.fragLenStddev,
          min |-> cfg.readLenMin * 2, max |-> cfg.readLenMax * 2]
    ELSE [mean |-> cfg.readLenMean, stdDev |-> cfg.readLenStdDev,
          min |-> cfg.readLenMin, max |-> cfg.readLenMax]

\* C24: the length a draw of the sampling loop gets from the sampler is mean
\* when stdDev is 0, whatever min and max are, and lies in min..max when
\* stdDev is not 0.
C24_SamplerRange ==
    [][SimDraw =>
         /\ SamplerArgs.stdDev = 0 => readLen' = SamplerArgs.mean
         /\ SamplerArgs.stdDev # 0 =>
                (SamplerArgs.min <= readLen' /\ readLen' <= SamplerArgs.max)]_vars

\* With stdDev not 0, the sampler returned min although mean - stdDev, a
\* length below min, is among its draws.
C24_Witness ==
    /\ pc = "drawn"
    /\ SamplerArgs.stdDev # 0
    /\ readLen = SamplerArgs.min
    /\ SamplerArgs.mean - SamplerArgs.stdDev < SamplerArgs.min

\* With stdDev 0 and mean above max, the sampler returned mean.
C24_FixedAboveMax ==
    /\ pc = "drawn"
    /\ SamplerArgs.stdDev = 0
    /\ SamplerArgs.mean > SamplerArgs.max
    /\ readLen = SamplerArgs.mean

\* C26: the two records of a paired iteration carry the same fragment
\* identifier with the suffixes /1 and /2; in bufOut every first mate is
\* followed at once by its second mate and every second mate follows its
\* first; with -split_reads the w1 and the w2 of a region hold the same
\* number of records and the i-th record of w2 is the second mate of the
\* i-th record of w1.
C26_MatesSynchronised ==
    cfg.paired =>
      /\ Len(lastRecs) = 2 =>
           /\ lastRecs[1].id[3] = "/1"
           /\ lastRecs[2].id[3] = "/2"
           /\ lastRecs[1].id[1] = lastRecs[2].id[1]
           /\ lastRecs[1].id[2] = lastRecs[2].id[2]
      /\ \A k \in 1..Len(bufOut) :
           /\ bufOut[k].mate \in {1, 2}
           /\ bufOut[k].mate = 1 =>
                (k < Len(bufOut) /\ bufOut[k + 1] = [bufOut[k] EXCEPT !.mate = 2])
           /\ bufOut[k].mate = 2 =>
                (k > 1 /\ bufOut[k - 1] = [bufOut[k] EXCEPT !.mate = 1])
      /\ \A n \in 1..Len(writers) :
           /\ Len(writers[n].w1) = Len(writers[n].w2)
           /\ \A i \in 1..Len(writers[n].w1) :
                /\ writers[n].w1[i].mate = 1
                /\ writers[n].w2[i] = [writers[n].w1[i] EXCEPT !.mate = 2]
      /\ cfg.splitReads => bufOut = <<>>
      /\ ~cfg.splitReads => writers = <<>>

\* With -split_reads, a region has written two pairs.
C26_Witness ==
    /\ cfg.paired /\ cfg.splitReads
    /\ pc = "loop"
    /\ Len(writers) = 1
    /\ Len(writers[1].w1) = 2 /\ Len(writers[1].w2) = 2

\* Without -split_reads, a region has written two pairs to bufOut.
C26_InterleavedWitness ==
    /\ cfg.paired /\ ~cfg.splitReads
    /\ pc = "loop"
    /\ Len(bufOut) = 4

\* The records a file holds.
Holds(file) == {file[k] : k \in 1..Len(file)}

\* C29: at the end of a paired run with -split_reads, the R1 file holds the
\* first mate and the R2 file the second mate of every pair that every
\* region wrote.
C29_SplitOutputComplete ==
    (pc = "end" /\ cfg.paired /\ cfg.splitReads) =>
        \A n \in 1..Len(writers) :
          /\ \A i \in 1..Len(writers[n].w1) : writers[n].w1[i] \in Holds(disk.R1)
          /\ \A i \in 1..Len(writers[n].w2) : writers[n].w2[i] \in Holds(disk.R2)

\* The same, for the runs that simulate one region.
C29_SingleRegionComplete ==
    (pc = "end" /\ cfg.paired /\ cfg.splitReads /\ Len(writers) = 1) =>
        (disk.R1 = writers[1].w1 /\ disk.R2 = writers[1].w2)

\* At the end of every run, the output file holds the records written to
\* bufOut, in the order written.
OutputFileComplete == pc = "end" => disk.out = bufOut

\* Positions inside the sampling loop.
InLoop == {"loop", "drawn", "extracted", "inject"}

\* C25: basesSimulated is 0 when the sampling loop is entered; the step that
\* writes the records of an iteration adds the drawn length of the iteration
\* (baseEnd - baseStart, whatever the lengths of the mutated reads are), and
\* no other step of the loop changes basesSimulated or writes a record; a
\* draw that is longer than the region goes back to the top of the loop with
\* basesSimulated and the output unchanged.  With a fixed length,
\* basesSimulated is that length times the number of iterations that wrote.
C25_DrawnLengthAccounting ==
    /\ [](SamplerArgs.stdDev = 0 =>
            basesSimulated
              = SamplerArgs.mean * (IF cfg.paired THEN emitted \div 2 ELSE emitted))
    /\ [][ /\ (pc = "start" /\ pc' = "loop") => basesSimulated' = 0
           /\ (pc = "inject" /\ pc' = "loop") =>
                /\ basesSimulated' = basesSimulated + readLen
                /\ readLen = baseEnd - baseStart
                /\ emitted' = emitted + Len(lastRecs')
                /\ Len(bufOut') + (IF writers' = <<>> THEN 0
                                   ELSE 2 * Len(Last(writers').w1))
                     = Len(bufOut) + (IF writers = <<>> THEN 0
                                      ELSE 2 * Len(Last(writers).w1)) + Len(lastRecs')
           /\ (pc \in InLoop /\ pc' \in InLoop /\ ~(pc = "inject" /\ pc' = "loop")) =>
                UNCHANGED <<basesSimulated, emitted, bufOut, writers, disk>>
           /\ (pc = "drawn" /\ regionLen < readLen) =>
                (pc' = "loop" /\ UNCHANGED <<basesSimulated, emitted, bufOut, writers, disk>>)
         ]_vars

\* A single-end iteration has written a read that is not as long as the
\* length drawn for it, and basesSimulated is the drawn length.
C25_Witness ==
    /\ pc = "loop"
    /\ ~cfg.paired
    /\ emitted = 1
    /\ Len(lastRecs) = 1
    /\ Len(lastRecs[1].seq) # readLen
    /\ basesSimulated = readLen

\* A draw longer than the region was discarded after a read had been written.
C25_RejectedDraw ==
    /\ pc = "loop"
    /\ readLen = 0
    /\ lastRecs = <<>>
    /\ emitted > 0
    /\ basesSimulated < targetBases

\* Number of input bases the deletion events of log removed, and number of
\* bases its insertion events added.
RECURSIVE BasesRemoved(_)
BasesRemoved(log) ==
    IF log = <<>> THEN 0
    ELSE (IF Head(log).kind = "del" THEN Len(Head(log).orig) ELSE 0)
         + BasesRemoved(Tail(log))

RECURSIVE BasesAdded(_)
BasesAdded(log) ==
    IF log = <<>> THEN 0
    ELSE (IF Head(log).kind = "ins" THEN Len(Head(log).text) ELSE 0)
         + BasesAdded(Tail(log))

\* C30: after every iteration of the pass the result holds as many bases as
\* input positions were passed, less the bases deletions removed, plus the
\* bases insertions added; at the end of the pass this is len(input) less the
\* removed plus the added bases, and len(input) when indelRate is 0.
C30_LengthConservation ==
    pc = "inject" =>
        /\ Len(inj.result)
             = inj.i - BasesRemoved(inj.mutationLog) + BasesAdded(inj.mutationLog)
        /\ inj.i <= Len(inj.seq)
        /\ (inj.i = Len(inj.seq) /\ cfg.indelRate = 0) =>
               Len(inj.result) = Len(inj.seq)

\* A pass has ended that removed two bases in one deletion and added a base
\* by an insertion.
C30_Witness ==
    /\ pc = "inject"
    /\ inj.i = Len(inj.seq)
    /\ BasesRemoved(inj.mutationLog) = 2
    /\ BasesAdded(inj.mutationLog) >= 1
    /\ Len(inj.result) = Len(inj.seq) - 2 + BasesAdded(inj.mutationLog)

\* The input coordinates of the entries of log are strictly increasing.
CoordinatesIncrease(log) ==
    \A a \in 1..Len(log), b \in 1..Len(log) : a < b => log[a].pos < log[b].pos

\* C27: for every maximum indel length that SeqSimRun accepts, every
\* iteration of the pass ends, and ends at least one input position further;
\* the input coordinates of the mutation log are strictly increasing.
C27_PassAdvances ==
    [][injecting =>
         /\ pc' = "inject"
         /\ inj'.i >= inj.i + 1
         /\ CoordinatesIncrease(inj'.mutationLog)]_vars

\* The same, for the maximum indel lengths of at least 1.
C27_AdvancesWithPositiveLength ==
    [][(injecting /\ cfg.maxIndel >= 1) =>
         /\ pc' = "inject"
         /\ inj'.i >= inj.i + 1
         /\ inj'.i <= Len(inj.seq)
         /\ CoordinatesIncrease(inj'.mutationLog)]_vars

\* Number of bytes extractSequence is asked for when the read starts offs
\* bases into the region.
bytesRequested(offs) ==
    calcByteOffset((offs + regionStart) + readLen, rec)
      - calcByteOffset(offs + regionStart, rec)

\* C28: for every length the sampler returned and every start the loop can
\* draw for it, the byte range requested from extractSequence fits the
\* buffer, and no region fails with "buffer too small for read".
C28_BufferLargeEnough ==
    /\ (pc = "drawn" /\ ~(regionLen < readLen)) =>
           \A offs \in 0..(regionLen - readLen) : bytesRequested(offs) <= bufCap
    /\ err # "buffer too small for read"
    /\ \A k \in 1..Len(outcomes) : outcomes[k].err # "buffer too small for read"

\* The same, for the runs whose fixed length is not above the maximum.
C28_BufferWithinMaximum ==
    (SamplerArgs.stdDev = 0 => SamplerArgs.mean <= SamplerArgs.max) =>
        /\ (pc = "drawn" /\ ~(regionLen < readLen)) =>
               \A offs \in 0..(regionLen - readLen) : bytesRequested(offs) <= bufCap
        /\ err # "buffer too small for read"

====
